---- MODULE Spec2Model ----
(***************************************************************************)
(* A model of the grid engine of crates/typst/src/layout/grid/layout.rs:   *)
(* the placement resolver (CellGrid::resolve, resolve_cell_position,       *)
(* CellGrid::new_internal) and GridLayouter: the column sizing             *)
(* (measure_columns and the functions it calls), the layout of the rows    *)
(* into regions (layout, layout_auto_row, measure_auto_row,                *)
(* layout_relative_row, finish_region) and render_fills_strokes.           *)
(*                                                                         *)
(* Vectors are TLA+ sequences; the code's 0-based index i is position      *)
(* i + 1 of the sequence.  Lengths (Abs, an f64 in the code) are integers  *)
(* counted in 1/Scale of a unit, so that every division the code performs  *)
(* on them is exact; Inf stands for Abs::inf().                            *)
(***************************************************************************)
EXTENDS Integers, Sequences, FiniteSets, TLC

(***************************************************************************)
(* Bounds of the model.                                                    *)
(***************************************************************************)
\* Largest number of declared tracks of an axis (tracks.x.len(),
\* tracks.y.len()), and the largest explicit row a cell asks for.
MaxTracks == 2
\* Largest number of items given to resolve.
MaxItems == 3
\* Largest colspan and rowspan of a cell.
MaxSpan == 2

(***************************************************************************)
(* Values.                                                                 *)
(***************************************************************************)
\* Smart::Auto for a Smart<usize>; Smart::Custom(n) is n itself.
SmartAuto == -1

Auto == [kind |-> "Auto", v |-> 0]
Rel(n) == [kind |-> "Rel", v |-> n]
Fr(n) == [kind |-> "Fr", v |-> n]

\* Option<Entry>: None, Some(Entry::Cell(cell)), Some(Entry::Merged{parent}).
\* A cell keeps its colspan, its rowspan and w, the width its body measures.
NoneEntry == [kind |-> "None", parent |-> 0, colspan |-> 0, rowspan |-> 0, w |-> 0]
CellEntry(colspan, rowspan, w) ==
    [kind |-> "Cell", parent |-> 0, colspan |-> colspan, rowspan |-> rowspan, w |-> w]
MergedEntry(parent) ==
    [kind |-> "Merged", parent |-> parent, colspan |-> 0, rowspan |-> 0, w |-> 0]

\* slice.get(i): the entry at the 0-based index i, or None beyond the end.
Get(s, i) == IF i >= 0 /\ i < Len(s) THEN s[i + 1] ELSE NoneEntry

\* `let Some(Some(_)) = resolved_cells.get(i)`: the slot exists and is taken.
Occupied(resolved_cells, i) ==
    i < Len(resolved_cells) /\ resolved_cells[i + 1].kind # "None"

\* vec.resize(new_len, None) for new_len >= len.
Resize(s, new_len) ==
    [i \in 1..new_len |-> IF i <= Len(s) THEN s[i] ELSE NoneEntry]

\* `*slot = Some(e)` at the 0-based index i.
SetSlot(s, i, e) == [s EXCEPT ![i + 1] = e]

Max(a, b) == IF a >= b THEN a ELSE b
Min(a, b) == IF a <= b THEN a ELSE b

(***************************************************************************)
(* resolve_cell_position.                                                  *)
(***************************************************************************)
\* A mutant of ScanAuto: the counter is used as it is.
ScanAutoNoSkip(resolved_cells, resolved_index) == resolved_index

\* The loop of the (auto, auto) case: skip every taken slot.
RECURSIVE ScanAuto(_, _)
ScanAuto(resolved_cells, resolved_index) ==
    IF Occupied(resolved_cells, resolved_index)
    THEN ScanAuto(resolved_cells, resolved_index + 1)
    ELSE resolved_index

\* A mutant of ScanColumn: the scan stops at the row it starts from.
ScanColumnNoSkip(resolved_cells, columns, cell_x, resolved_y) == resolved_y

\* The loop of the (x, auto) case: the first row with column cell_x free.
RECURSIVE ScanColumn(_, _, _, _)
ScanColumn(resolved_cells, columns, cell_x, resolved_y) ==
    IF Occupied(resolved_cells, resolved_y * columns + cell_x)
    THEN ScanColumn(resolved_cells, columns, cell_x, resolved_y + 1)
    ELSE resolved_y

\* A mutant of FindInRow: a full row spills into the slot after it.
FindInRowSpill(resolved_cells, first_row_pos, last_row_pos) ==
    ScanAuto(resolved_cells, first_row_pos)

\* (first_row_pos..last_row_pos).find(..): the first free slot of the row,
\* or -1 for None.
RECURSIVE FindInRow(_, _, _)
FindInRow(resolved_cells, first_row_pos, last_row_pos) ==
    IF first_row_pos >= last_row_pos THEN -1
    ELSE IF ~Occupied(resolved_cells, first_row_pos) THEN first_row_pos
    ELSE FindInRow(resolved_cells, first_row_pos + 1, last_row_pos)

PosOk(index, auto_index) ==
    [ok |-> TRUE, index |-> index, auto_index |-> auto_index, err |-> "none"]
PosErr(err, auto_index) ==
    [ok |-> FALSE, index |-> -1, auto_index |-> auto_index, err |-> err]

\* The index a cell asking for (cell_x, cell_y) gets and the new value of the
\* counter auto_index, or the error.
resolve_cell_position(cell_x, cell_y, resolved_cells, auto_index, columns) ==
    IF cell_x = SmartAuto /\ cell_y = SmartAuto
    THEN LET i == ScanAuto(resolved_cells, auto_index) IN PosOk(i, i + 1)
    ELSE IF cell_x # SmartAuto
    THEN IF cell_x >= columns
         THEN PosErr("invalid_column", auto_index)
         ELSE IF cell_y # SmartAuto
         THEN PosOk(cell_y * columns + cell_x, auto_index)
         ELSE PosOk(ScanColumn(resolved_cells, columns, cell_x, 0) * columns + cell_x,
                    auto_index)
    ELSE LET i == FindInRow(resolved_cells, cell_y * columns, cell_y * columns + columns)
         IN  IF i = -1 THEN PosErr("row_full", auto_index) ELSE PosOk(i, auto_index)

(***************************************************************************)
(* CellGrid::resolve: the body of the loop over the items.                 *)
(*                                                                         *)
(* The locals of resolve are the record                                    *)
(*   [cells, auto_index, hlines, vlines, err]                              *)
(* (resolved_cells, auto_index, pending_hlines, pending_vlines, and the    *)
(* error resolve bails with, "none" while it runs).                        *)
(***************************************************************************)
Line(index, start, end, position, span) ==
    [index |-> index, start |-> start, end |-> end, position |-> position,
     span |-> span]

\* The length resolved_cells is resized to: largest_index + 1 rounded up to
\* a multiple of c.
NewLen(largest_index, c) ==
    (largest_index + 1) + ((c - ((largest_index + 1) % c)) % c)

\* A mutant of FillSpan: a taken slot is overwritten instead of reported.
RECURSIVE FillSpanOverwrite(_, _, _, _, _, _)
FillSpanOverwrite(cells, resolved_index, c, colspan, rowspan, k) ==
    IF k >= colspan * rowspan THEN [cells |-> cells, err |-> "none"]
    ELSE LET i == resolved_index + c * (k \div colspan) + (k % colspan)
         IN  IF k = 0
             THEN FillSpanOverwrite(cells, resolved_index, c, colspan, rowspan, k + 1)
             ELSE FillSpanOverwrite(SetSlot(cells, i, MergedEntry(resolved_index)),
                                    resolved_index, c, colspan, rowspan, k + 1)

\* A mutant of FillSpan: a merged slot points to the first slot of its own
\* row of the span instead of the parent cell.
RECURSIVE FillSpanRowParent(_, _, _, _, _, _)
FillSpanRowParent(cells, resolved_index, c, colspan, rowspan, k) ==
    IF k >= colspan * rowspan THEN [cells |-> cells, err |-> "none"]
    ELSE LET first_row_index == resolved_index + c * (k \div colspan)
             i == first_row_index + (k % colspan)
         IN  IF k = 0
             THEN FillSpanRowParent(cells, resolved_index, c, colspan, rowspan, k + 1)
             ELSE IF Occupied(cells, i)
             THEN [cells |-> cells, err |-> "span_previous"]
             ELSE FillSpanRowParent(SetSlot(cells, i, MergedEntry(first_row_index)),
                                    resolved_index, c, colspan, rowspan, k + 1)

\* The two nested loops that mark the spanned slots as Merged, from the k-th
\* slot of the rectangle on (row-major: rowspan_offset = k \div colspan,
\* colspan_offset = k % colspan).  They stop at the first taken slot.
RECURSIVE FillSpan(_, _, _, _, _, _)
FillSpan(cells, resolved_index, c, colspan, rowspan, k) ==
    IF k >= colspan * rowspan THEN [cells |-> cells, err |-> "none"]
    ELSE LET i == resolved_index + c * (k \div colspan) + (k % colspan)
         IN  IF k = 0
             THEN FillSpan(cells, resolved_index, c, colspan, rowspan, k + 1)
             ELSE IF Occupied(cells, i)
             THEN [cells |-> cells, err |-> "span_previous"]
             ELSE FillSpan(SetSlot(cells, i, MergedEntry(resolved_index)),
                           resolved_index, c, colspan, rowspan, k + 1)

\* A mutant of ColspanFits: the span may run over the last column.
ColspanFitsAlways(colspan, c, x) == TRUE

\* `colspan > c - x` bails.
ColspanFits(colspan, c, x) == ~(colspan > c - x)

\* A mutant of SlotFree: the second cell replaces the first.
SlotFreeAlways(cells, resolved_index) == TRUE

\* `slot.is_some()` bails.
SlotFree(cells, resolved_index) == ~Occupied(cells, resolved_index)

\* GridItem::Cell: one cell asking for (cell_x, cell_y).  celled_ok says
\* whether the celled values (fill, align, inset, stroke) resolve at the
\* cell's position; a Func among them may fail.
place_cell(st, c, cell_x, cell_y, colspan, rowspan, w, celled_ok) ==
    LET pos == resolve_cell_position(cell_x, cell_y, st.cells, st.auto_index, c)
    IN  IF ~pos.ok THEN [st EXCEPT !.err = pos.err]
        ELSE
        LET resolved_index == pos.index
            x == resolved_index % c
            y == resolved_index \div c
            st1 == [st EXCEPT !.auto_index = pos.auto_index]
            largest_index == resolved_index + c * (rowspan - 1) + (colspan - 1)
            cells1 == IF largest_index >= Len(st.cells)
                      THEN Resize(st.cells, NewLen(largest_index, c))
                      ELSE st.cells
        IN  IF ~ColspanFits(colspan, c, x) THEN [st1 EXCEPT !.err = "colspan_exceeds"]
            ELSE IF ~celled_ok THEN [st1 EXCEPT !.err = "eval"]
            ELSE IF ~SlotFree(cells1, resolved_index)
            THEN [st1 EXCEPT !.cells = cells1, !.err = "second_cell"]
            ELSE
            LET filled == FillSpan(SetSlot(cells1, resolved_index,
                                           CellEntry(colspan, rowspan, w)),
                                   resolved_index, c, colspan, rowspan, 0)
            IN  [st1 EXCEPT !.cells = filled.cells, !.err = filled.err]

\* A mutant of AutoLineY: the counter is taken for the index of the latest
\* automatically positioned cell.
AutoLineYOfCounter(auto_index, c) ==
    IF auto_index = 0 THEN 0 ELSE auto_index \div c + 1

\* The index an hline with y = auto gets.
AutoLineY(auto_index, c) ==
    IF auto_index = 0 THEN 0 ELSE (auto_index - 1) \div c + 1

\* The index a vline with x = auto gets.
AutoLineX(auto_index, c) ==
    IF auto_index = 0 THEN 0 ELSE ((auto_index - 1) % c) + 1

\* GridItem::HLine.  end = 0 is None.
place_hline(st, c, y, start, end, position, span) ==
    IF end # 0 /\ end < start THEN [st EXCEPT !.err = "line_ends_before_start"]
    ELSE LET index == IF y = SmartAuto THEN AutoLineY(st.auto_index, c) ELSE y
         IN  [st EXCEPT !.hlines = Append(@, Line(index, start, end, position, span))]

\* GridItem::VLine.
place_vline(st, c, x, start, end, position, span) ==
    IF end # 0 /\ end < start THEN [st EXCEPT !.err = "line_ends_before_start"]
    ELSE LET index == IF x = SmartAuto THEN AutoLineX(st.auto_index, c) ELSE x
         IN  [st EXCEPT !.vlines = Append(@, Line(index, start, end, position, span))]

(***************************************************************************)
(* CellGrid::resolve: after the loop.                                      *)
(***************************************************************************)
\* Every slot still absent becomes T::default() resolved as a cell: colspan
\* 1, rowspan 1, an empty body.
Materialize(cells) ==
    [i \in 1..Len(cells) |->
        IF cells[i].kind = "None" THEN CellEntry(1, 1, 0) ELSE cells[i]]

DivCeil(a, b) == (a + b - 1) \div b

\* groups.resize_with(n, Vec::new) for n >= len.
ResizeGroups(groups, n) ==
    [i \in 1..n |-> IF i <= Len(groups) THEN groups[i] ELSE << >>]

\* A mutant of place_lines: a line is put first in its group.
RECURSIVE place_lines_first(_, _, _, _, _)
place_lines_first(pending, k, groups, amount, has_gutter) ==
    IF k > Len(pending) THEN [err |-> "none", lines |-> groups]
    ELSE
    LET line == pending[k]
        y == line.index
    IN  IF y > amount THEN [err |-> "line_invalid_index", lines |-> groups]
        ELSE IF y = amount /\ line.position = "After"
        THEN [err |-> "line_after_border", lines |-> groups]
        ELSE
        LET placed == IF line.position = "After" /\ (~has_gutter \/ y + 1 = amount)
                      THEN [line EXCEPT !.index = y + 1, !.position = "Before"]
                      ELSE line
            grown == IF Len(groups) <= placed.index
                     THEN ResizeGroups(groups, placed.index + 1)
                     ELSE groups
        IN  place_lines_first(pending, k + 1,
                              [grown EXCEPT ![placed.index + 1] = <<placed>> \o @],
                              amount, has_gutter)

\* The loop over the pending lines of one axis, from the k-th on: amount is
\* row_amount for hlines and c for vlines.
RECURSIVE place_lines(_, _, _, _, _)
place_lines(pending, k, groups, amount, has_gutter) ==
    IF k > Len(pending) THEN [err |-> "none", lines |-> groups]
    ELSE
    LET line == pending[k]
        y == line.index
    IN  IF y > amount THEN [err |-> "line_invalid_index", lines |-> groups]
        ELSE IF y = amount /\ line.position = "After"
        THEN [err |-> "line_after_border", lines |-> groups]
        ELSE
        LET placed == IF line.position = "After" /\ (~has_gutter \/ y + 1 = amount)
                      THEN [line EXCEPT !.index = y + 1, !.position = "Before"]
                      ELSE line
            grown == IF Len(groups) <= placed.index
                     THEN ResizeGroups(groups, placed.index + 1)
                     ELSE groups
        IN  place_lines(pending, k + 1,
                        [grown EXCEPT ![placed.index + 1] = Append(@, placed)],
                        amount, has_gutter)

\* A mutant of get_or: past the declared tracks the default is taken.
get_or_default(tracks, idx, default) ==
    IF idx < Len(tracks) THEN tracks[idx + 1] ELSE default

\* tracks.get(idx).or(tracks.last()).copied().unwrap_or(default)
get_or(tracks, idx, default) ==
    IF idx < Len(tracks) THEN tracks[idx + 1]
    ELSE IF Len(tracks) > 0 THEN tracks[Len(tracks)]
    ELSE default

\* The loop collecting the content and gutter tracks of one axis.
RECURSIVE collect_tracks(_, _, _, _, _, _)
collect_tracks(out, content, gutters, i, n, has_gutter) ==
    IF i >= n THEN out
    ELSE LET with_track == Append(out, get_or(content, i, Auto))
         IN  collect_tracks(IF has_gutter
                            THEN Append(with_track, get_or(gutters, i, Rel(0)))
                            ELSE with_track,
                            content, gutters, i + 1, n, has_gutter)

\* vec.pop(): nothing happens to an empty vector.
Pop(s) == IF Len(s) = 0 THEN s ELSE SubSeq(s, 1, Len(s) - 1)

\* `gutter.any(|tracks| !tracks.is_empty())`
HasGutter(gutter) == Len(gutter.x) > 0 \/ Len(gutter.y) > 0

\* Number of content columns: always at least one.
Columns(tracks) == Max(Len(tracks.x), 1)

\* r of new_internal: the number of content rows.
RowCount(tracks, entries) ==
    LET c == Columns(tracks)
        len == Len(entries)
        given == Len(tracks.y)
        needed == (len \div c) + Min(len % c, 1)
    IN  Max(given, needed)

\* CellGrid::new_internal
new_internal(tracks, gutter, vlines, hlines, entries) ==
    LET c == Columns(tracks)
        r == RowCount(tracks, entries)
        has_gutter == HasGutter(gutter)
        cols == collect_tracks(<< >>, tracks.x, gutter.x, 0, c, has_gutter)
        rows == collect_tracks(<< >>, tracks.y, gutter.y, 0, r, has_gutter)
    IN  [cols |-> IF has_gutter THEN Pop(cols) ELSE cols,
         rows |-> IF has_gutter THEN Pop(rows) ELSE rows,
         entries |-> entries,
         vlines |-> vlines,
         hlines |-> hlines,
         has_gutter |-> has_gutter]

\* The grid of a resolve that has not returned one.
NoGrid ==
    [cols |-> << >>, rows |-> << >>, entries |-> << >>, vlines |-> << >>,
     hlines |-> << >>, has_gutter |-> FALSE]

\* CellGrid::entry: the entry at the track coordinates (x, y), NoneEntry for
\* a gutter position and for a position the vector of entries does not hold.
entry(g, x, y) ==
    IF g.has_gutter
    THEN IF x % 2 = 0 /\ y % 2 = 0
         THEN Get(g.entries, (y \div 2) * (1 + (Len(g.cols) \div 2)) + (x \div 2))
         ELSE NoneEntry
    ELSE Get(g.entries, y * Len(g.cols) + x)

\* CellGrid::cell: is Some exactly when the entry is a Cell.
cell(g, x, y) ==
    IF entry(g, x, y).kind = "Cell" THEN entry(g, x, y) ELSE NoneEntry

\* CellGrid::parent_cell_position
parent_cell_position(g, x, y) ==
    LET e == entry(g, x, y)
        c == IF g.has_gutter THEN 1 + (Len(g.cols) \div 2) ELSE Len(g.cols)
        factor == IF g.has_gutter THEN 2 ELSE 1
    IN  IF e.kind = "None" THEN [some |-> FALSE, x |-> 0, y |-> 0]
        ELSE IF e.kind = "Cell" THEN [some |-> TRUE, x |-> x, y |-> y]
        ELSE [some |-> TRUE, x |-> factor * (e.parent % c),
              y |-> factor * (e.parent \div c)]

\* The part of resolve after the loop over the items: the absent slots
\* become empty cells (default_ok says whether the celled values resolve for
\* them), the pending lines are checked and grouped, and the grid is built.
finish_resolve(st, tracks, gutter, default_ok) ==
    LET c == Columns(tracks)
        has_gutter == HasGutter(gutter)
        absent == \E i \in 1..Len(st.cells) : st.cells[i].kind = "None"
        resolved_cells == Materialize(st.cells)
        row_amount == DivCeil(Len(resolved_cells), c)
        hl == place_lines(st.hlines, 1, << >>, row_amount, has_gutter)
        vl == place_lines(st.vlines, 1, << >>, c, has_gutter)
    IN  IF absent /\ ~default_ok THEN [err |-> "eval", grid |-> NoGrid]
        ELSE IF hl.err # "none" THEN [err |-> hl.err, grid |-> NoGrid]
        ELSE IF vl.err # "none" THEN [err |-> vl.err, grid |-> NoGrid]
        ELSE [err |-> "none",
              grid |-> new_internal(tracks, gutter, vl.lines, hl.lines, resolved_cells)]

(***************************************************************************)
(* The state.                                                              *)
(***************************************************************************)
VARIABLES
    tracks,           \* the declared tracks, [x |-> columns, y |-> rows]
    gutter,           \* the declared gutters, [x |-> .., y |-> ..]
    resolved_cells,   \* resolve's vector of Option<Entry>
    auto_index,       \* resolve's counter for (auto, auto) cells
    pending_hlines,   \* resolve's pending horizontal lines
    pending_vlines,   \* resolve's pending vertical lines
    nitems,           \* the number of items resolve has consumed
    last,             \* the item consumed last and the index it resolved to
    pc,               \* "resolving", "resolved", "failed", then the layouter's
    err,              \* the error resolve bailed with, or "none"
    grid,             \* the CellGrid resolve returned
    regions,          \* GridLayouter.regions: [size_x, base_x]
    rcols,            \* GridLayouter.rcols
    width,            \* GridLayouter.width
    cols_tmp,         \* measure_columns' locals: rel, fr, available, auto, count, ..
    layouter,         \* GridLayouter: rrows, lrows, unbreakable_rows_left,
                      \* rowspans, initial, finished
    rows_tmp          \* layout's loop: the row y, and what its last step did

vars == <<tracks, gutter, resolved_cells, auto_index, pending_hlines,
          pending_vlines, nitems, last, pc, err, grid, regions, rcols, width,
          cols_tmp, layouter, rows_tmp>>

resolver_vars == <<resolved_cells, auto_index, pending_hlines, pending_vlines,
                   nitems, last, err>>
row_vars == <<layouter, rows_tmp>>
layouter_vars == <<regions, rcols, width, cols_tmp, row_vars>>

Locals ==
    [cells |-> resolved_cells, auto_index |-> auto_index,
     hlines |-> pending_hlines, vlines |-> pending_vlines, err |-> err]

NoItem ==
    [kind |-> "none", x |-> 0, y |-> 0, colspan |-> 0, rowspan |-> 0,
     celled_ok |-> TRUE, index |-> -1, auto_before |-> 0,
     start |-> 0, end |-> 0, position |-> "Before"]

NoRegions == [size_x |-> 0, base_x |-> 0]

\* The layouter's row state before any layouter exists, and as
\* GridLayouter::new sets it: no rows, no rowspans, no finished region.
NoLayouter ==
    [regions |-> [size_y |-> 0, full |-> 0, backlog |-> << >>, last |-> << >>],
     rrows |-> << >>, lrows |-> << >>, unbreakable_rows_left |-> 0,
     rowspans |-> << >>, initial |-> 0, finished |-> << >>]

\* layout's loop before it starts: the row y to lay out next, and of the
\* last row laid out: its index, the heights measure_auto_row resolved for
\* it, whether the region was skipped to remeasure it, whether the region
\* held a fractional row, and the heights left in the regions it went to.
NoRowsTmp ==
    [y |-> 0, row |-> -1, resolved |-> << >>, skipped |-> FALSE, had_fr |-> FALSE,
     room |-> << >>, given |-> << >>]

\* measure_columns' locals before it runs.
NoColsTmp ==
    [rel |-> 0, fr |-> 0, available |-> 0, auto |-> 0, count |-> 0, remaining |-> 0]

\* The declared column tracks of the resolver's runs: the first n of
\* (Rel, Auto, Fr, Auto, ...).
ColumnTrack(i) == IF i = 1 THEN Rel(1) ELSE IF i = 3 THEN Fr(1) ELSE Auto
\* The declared row tracks: the first n of (Auto, Rel, Auto, ...).
RowTrack(i) == IF i = 2 THEN Rel(1) ELSE Auto

ResolverTracks ==
    {[x |-> [i \in 1..n |-> ColumnTrack(i)], y |-> [i \in 1..m |-> RowTrack(i)]] :
        n \in 0..MaxTracks, m \in 0..MaxTracks}

Gutters ==
    {[x |-> gx, y |-> gy] : gx \in {<< >>, <<Rel(1)>>}, gy \in {<< >>, <<Rel(2)>>}}

Init ==
    /\ tracks \in ResolverTracks
    /\ gutter \in Gutters
    /\ resolved_cells = << >>
    /\ auto_index = 0
    /\ pending_hlines = << >>
    /\ pending_vlines = << >>
    /\ nitems = 0
    /\ last = NoItem
    /\ pc = "resolving"
    /\ err = "none"
    /\ grid = NoGrid
    /\ regions = NoRegions
    /\ rcols = << >>
    /\ width = 0
    /\ cols_tmp = NoColsTmp
    /\ layouter = NoLayouter
    /\ rows_tmp = NoRowsTmp

\* resolve's locals after an item, and its position.  An error ends resolve:
\* it returns the error and its locals are dropped.
AfterItem(st, item) ==
    /\ IF st.err = "none"
       THEN /\ resolved_cells' = st.cells
            /\ auto_index' = st.auto_index
            /\ pending_hlines' = st.hlines
            /\ pending_vlines' = st.vlines
            /\ pc' = "resolving"
       ELSE /\ resolved_cells' = << >>
            /\ auto_index' = 0
            /\ pending_hlines' = << >>
            /\ pending_vlines' = << >>
            /\ pc' = "failed"
    /\ err' = st.err
    /\ nitems' = nitems + 1
    /\ last' = item
    /\ UNCHANGED <<tracks, gutter, grid, layouter_vars>>

\* One iteration of the loop on a GridItem::Cell.
PlaceCell(cell_x, cell_y, colspan, rowspan, w, celled_ok) ==
    /\ pc = "resolving"
    /\ nitems < MaxItems
    /\ LET c == Columns(tracks)
           pos == resolve_cell_position(cell_x, cell_y, resolved_cells, auto_index, c)
       IN  AfterItem(place_cell(Locals, c, cell_x, cell_y, colspan, rowspan, w, celled_ok),
                     [kind |-> "cell", x |-> cell_x, y |-> cell_y,
                      colspan |-> colspan, rowspan |-> rowspan,
                      celled_ok |-> celled_ok, index |-> pos.index,
                      auto_before |-> auto_index,
                      start |-> 0, end |-> 0, position |-> "Before"])

LineItem(kind, index, start, end, position) ==
    [kind |-> kind, x |-> 0, y |-> 0, colspan |-> 0, rowspan |-> 0,
     celled_ok |-> TRUE, index |-> index, auto_before |-> auto_index,
     start |-> start, end |-> end, position |-> position]

\* One iteration of the loop on a GridItem::HLine.
PlaceHLine(y, start, end, position) ==
    /\ pc = "resolving"
    /\ nitems < MaxItems
    /\ AfterItem(place_hline(Locals, Columns(tracks), y, start, end, position, nitems),
                 LineItem("hline", y, start, end, position))

\* One iteration of the loop on a GridItem::VLine.
PlaceVLine(x, start, end, position) ==
    /\ pc = "resolving"
    /\ nitems < MaxItems
    /\ AfterItem(place_vline(Locals, Columns(tracks), x, start, end, position, nitems),
                 LineItem("vline", x, start, end, position))

\* The items are exhausted: resolve returns the grid or an error, and its
\* locals are dropped.
FinishResolve(default_ok) ==
    /\ pc = "resolving"
    /\ LET res == finish_resolve(Locals, tracks, gutter, default_ok)
       IN  /\ err' = res.err
           /\ grid' = res.grid
           /\ pc' = IF res.err = "none" THEN "resolved" ELSE "failed"
    /\ resolved_cells' = << >>
    /\ auto_index' = 0
    /\ pending_hlines' = << >>
    /\ pending_vlines' = << >>
    /\ last' = NoItem
    /\ UNCHANGED <<tracks, gutter, nitems, layouter_vars>>

CellXs == {SmartAuto} \cup (0..MaxTracks)
CellYs == {SmartAuto} \cup (0..MaxTracks)
Spans == 1..MaxSpan

Next ==
    \/ \E cell_x \in CellXs, cell_y \in CellYs, colspan \in Spans, rowspan \in Spans,
          celled_ok \in BOOLEAN :
          PlaceCell(cell_x, cell_y, colspan, rowspan, 0, celled_ok)
    \/ \E default_ok \in BOOLEAN : FinishResolve(default_ok)

Spec == Init /\ [][Next]_vars

(***************************************************************************)
(* Celled values.                                                          *)
(***************************************************************************)
\* The Celled<T> a grid is given as its fill: a value, an array of values
\* per column, or a closure, which returns a value or fails ("error").  The
\* values of T are "a", "b" and T::default(), "default".
CelledArrays == {<< >>, <<"a">>, <<"a", "b">>, <<"b", "default">>}
Closures ==
    {[i \in 1..(2 * (MaxTracks + MaxItems)) |-> "a"],
     [i \in 1..(2 * (MaxTracks + MaxItems)) |-> IF i % 2 = 0 THEN "error" ELSE "b"]}
Celleds ==
    {[kind |-> "Value", v |-> v] : v \in {"a"}}
        \cup {[kind |-> "Array", array |-> array] : array \in CelledArrays}
        \cup {[kind |-> "Func", func |-> func] : func \in Closures}

\* A mutant of celled_resolve: the array is read at x, not at x mod len.
celled_resolve_get(celled, x, y) ==
    IF celled.kind = "Value" THEN [called |-> TRUE, ok |-> TRUE, v |-> celled.v]
    ELSE IF celled.kind = "Func"
    THEN [called |-> TRUE, ok |-> celled.func[x + y + 1] # "error",
          v |-> celled.func[x + y + 1]]
    ELSE [called |-> TRUE, ok |-> TRUE,
          v |-> IF x < Len(celled.array) THEN celled.array[x + 1] ELSE "default"]

\* Celled::resolve: [ok |-> TRUE, v |-> the value] for Ok, ok = FALSE for the
\* error of the closure.  The closures are called with (x, y); the ones
\* here look at x + y.  checked_rem is None for an empty array.
celled_resolve(celled, x, y) ==
    IF celled.kind = "Value" THEN [called |-> TRUE, ok |-> TRUE, v |-> celled.v]
    ELSE IF celled.kind = "Func"
    THEN [called |-> TRUE, ok |-> celled.func[x + y + 1] # "error",
          v |-> celled.func[x + y + 1]]
    ELSE [called |-> TRUE, ok |-> TRUE,
          v |-> IF Len(celled.array) = 0 THEN "default"
                ELSE IF x % Len(celled.array) < Len(celled.array)
                THEN celled.array[(x % Len(celled.array)) + 1]
                ELSE "default"]

\* One iteration of the loop on a GridItem::Cell of a grid with a celled
\* fill: the fill is resolved at the cell's position once the position and
\* the colspan are accepted; the item keeps what it resolved to.
PlaceFilledCell(cell_x, cell_y, colspan) ==
    /\ pc = "resolving"
    /\ nitems < MaxItems
    /\ LET c == Columns(tracks)
           pos == resolve_cell_position(cell_x, cell_y, resolved_cells, auto_index, c)
           Resolved(fill) ==
               AfterItem(place_cell(Locals, c, cell_x, cell_y, colspan, 1, 0, fill.ok),
                         [kind |-> "cell", x |-> cell_x, y |-> cell_y,
                          colspan |-> colspan, rowspan |-> 1,
                          celled_ok |-> fill.ok, index |-> pos.index,
                          auto_before |-> auto_index,
                          start |-> 0, end |-> 0, position |-> "Before",
                          fill |-> fill])
       IN  Resolved(IF pos.ok /\ ColspanFits(colspan, c, pos.index % c)
                    THEN celled_resolve(tracks.fill, pos.index % c, pos.index \div c)
                    ELSE [called |-> FALSE, ok |-> TRUE, v |-> "default"])

\* The grids with a celled fill.
InitCelled ==
    /\ tracks \in {t @@ [fill |-> celled] : t \in ResolverTracks, celled \in Celleds}
    /\ gutter \in Gutters
    /\ resolved_cells = << >>
    /\ auto_index = 0
    /\ pending_hlines = << >>
    /\ pending_vlines = << >>
    /\ nitems = 0
    /\ last = NoItem
    /\ pc = "resolving"
    /\ err = "none"
    /\ grid = NoGrid
    /\ regions = NoRegions
    /\ rcols = << >>
    /\ width = 0
    /\ cols_tmp = NoColsTmp
    /\ layouter = NoLayouter
    /\ rows_tmp = NoRowsTmp

\* The fill of a slot left absent is resolved when the items are exhausted.
NextCelled ==
    \/ \E cell_x \in CellXs, cell_y \in CellYs, colspan \in Spans :
          PlaceFilledCell(cell_x, cell_y, colspan)
    \/ \E default_ok \in BOOLEAN :
          /\ default_ok =
                \A i \in 1..Len(resolved_cells) :
                    resolved_cells[i].kind = "None" =>
                        celled_resolve(tracks.fill, (i - 1) % Columns(tracks),
                                       (i - 1) \div Columns(tracks)).ok
          /\ FinishResolve(default_ok)

SpecCelled == InitCelled /\ [][NextCelled]_vars

\* The items of the runs with lines: cells positioned automatically, and
\* lines at an automatic or a given index, spanning everything (start 0, no
\* end) or ending before they start, placed before or after their track.
LineIndexes == {SmartAuto} \cup (0..(MaxTracks + 1))
LineExtents == {<<0, 0>>, <<2, 1>>}
LinePositions == {"Before", "After"}

NextLines ==
    \/ PlaceCell(SmartAuto, SmartAuto, 1, 1, 0, TRUE)
    \/ \E y \in LineIndexes, se \in LineExtents, position \in LinePositions :
          PlaceHLine(y, se[1], se[2], position)
    \/ \E x \in LineIndexes, se \in LineExtents, position \in LinePositions :
          PlaceVLine(x, se[1], se[2], position)
    \/ FinishResolve(TRUE)

SpecLines == Init /\ [][NextLines]_vars

\* The items of the runs with automatic lines: cells at any position, and
\* lines at the automatic index spanning everything.
NextAutoLines ==
    \/ \E cell_x \in CellXs, cell_y \in CellYs, colspan \in Spans :
          PlaceCell(cell_x, cell_y, colspan, 1, 0, TRUE)
    \/ PlaceHLine(SmartAuto, 0, 0, "Before")
    \/ PlaceVLine(SmartAuto, 0, 0, "Before")
    \/ FinishResolve(TRUE)

SpecAutoLines == Init /\ [][NextAutoLines]_vars

(***************************************************************************)
(* CellGrid::resolve as a whole, for the grids the layouter starts from.   *)
(***************************************************************************)
NoLocals ==
    [cells |-> << >>, auto_index |-> 0, hlines |-> << >>, vlines |-> << >>,
     err |-> "none"]

\* The loop over the items: cells asking for (x, y) with a colspan, a
\* rowspan and a body of measured width w.
RECURSIVE resolve_items(_, _, _)
resolve_items(st, c, items) ==
    IF items = << >> \/ st.err # "none" THEN st
    ELSE LET it == Head(items)
         IN  resolve_items(place_cell(st, c, it.x, it.y, it.colspan, it.rowspan,
                                      it.w, TRUE),
                           c, Tail(items))

\* CellGrid::resolve on cells whose celled values resolve.
resolve(tracks_, gutter_, items) ==
    LET st == resolve_items(NoLocals, Columns(tracks_), items)
    IN  IF st.err # "none" THEN [err |-> st.err, grid |-> NoGrid]
        ELSE finish_resolve(st, tracks_, gutter_, TRUE)

(***************************************************************************)
(* GridLayouter: column sizing.                                            *)
(*                                                                         *)
(* A length is an integer number of 1/Scale units or Inf.  Scale is a      *)
(* multiple of every divisor the column sizing divides a length by (a sum  *)
(* of fractions, a number of auto columns) and every length given to the   *)
(* layouter is a multiple of Scale, so that the divisions are exact.       *)
(***************************************************************************)
\* Largest number of declared column tracks of a grid given to the layouter.
MaxColTracks == 3

\* Abs::inf()
Inf == 1000000000

\* The fractions of the fractional columns.
FrValues == {1, 2}

RECURSIVE Gcd(_, _)
Gcd(a, b) == IF b = 0 THEN a ELSE Gcd(b, a % b)
RECURSIVE LcmUpTo(_)
LcmUpTo(n) == IF n <= 1 THEN 1 ELSE (LcmUpTo(n - 1) * n) \div Gcd(LcmUpTo(n - 1), n)

Scale == LcmUpTo(2 * MaxColTracks)

\* a - b for a finite b.
AbsSub(a, b) == IF a = Inf THEN Inf ELSE a - b
\* a + b for lengths that are not -inf.
AbsAdd(a, b) == IF a = Inf \/ b = Inf THEN Inf ELSE a + b

\* iter.sum() over the lengths s[from], .., s[to].
RECURSIVE SumRange(_, _, _)
SumRange(s, from, to) ==
    IF from > to THEN 0 ELSE AbsAdd(s[from], SumRange(s, from + 1, to))

SumAll(s) == SumRange(s, 1, Len(s))

\* Fr::share: the part v / total of remaining.
share(v, total, remaining) ==
    IF remaining = Inf THEN Inf ELSE (v * remaining) \div total

\* CellGrid::effective_colspan_of_cell
effective_colspan_of_cell(g, colspan) ==
    IF g.has_gutter THEN 2 * colspan - 1 ELSE colspan

\* GridLayouter::cell_spanned_width: the resolved widths of the columns the
\* cell at column x spans, gutters included.
cell_spanned_width(g, rcols_, colspan, x) ==
    SumRange(rcols_, x + 1, Min(x + effective_colspan_of_cell(g, colspan), Len(rcols_)))

\* The first loop of measure_columns: the relative columns get their
\* widths; rel is their sum and fr the sum of the fractions.  A Rel sizing
\* carries the length it resolves to against regions.base().x.
resolve_relative_columns(cols, rcols_) ==
    [rcols |-> [i \in 1..Len(cols) |->
                   IF cols[i].kind = "Rel" THEN cols[i].v ELSE rcols_[i]],
     rel |-> SumAll([i \in 1..Len(cols) |->
                        IF cols[i].kind = "Rel" THEN cols[i].v ELSE 0]),
     fr |-> SumAll([i \in 1..Len(cols) |->
                       IF cols[i].kind = "Fr" THEN cols[i].v ELSE 0])]

\* The columns x of parent_x .. parent_x + colspan - 1 that are auto.
SpannedAutoCols(g, parent_x, colspan) ==
    {x \in parent_x..Min(parent_x + colspan - 1, Len(g.cols) - 1) :
        g.cols[x + 1] = Auto}

\* The fractional columns.
all_frac_cols(g) == {x \in 0..(Len(g.cols) - 1) : g.cols[x + 1].kind = "Fr"}

\* A mutant of counts_for_column: a colspan counts for every auto column it
\* spans.
counts_for_column_every(g, size_x, x, parent_x, colspan) ==
    ~(/\ colspan > 1
      /\ size_x # Inf
      /\ all_frac_cols(g) # {}
      /\ \A f \in all_frac_cols(g) : parent_x <= f /\ f < parent_x + colspan)

\* Whether the cell whose parent is at (parent_x, y) counts for the width of
\* the auto column x: a colspan counts for the last auto column it spans
\* only, and not at all if the region is finite and it spans every
\* fractional column.
counts_for_column(g, size_x, x, parent_x, colspan) ==
    /\ colspan > 1 =>
          /\ SpannedAutoCols(g, parent_x, colspan) # {}
          /\ \A x2 \in SpannedAutoCols(g, parent_x, colspan) : x2 <= x
          /\ x \in SpannedAutoCols(g, parent_x, colspan)
    /\ ~(/\ colspan > 1
         /\ size_x # Inf
         /\ all_frac_cols(g) # {}
         /\ \A f \in all_frac_cols(g) : parent_x <= f /\ f < parent_x + colspan)

\* The loop over the rows y, y + 1, .. of the auto column x: the largest
\* width a cell of the column needs beyond what the columns it spans have.
RECURSIVE measure_auto_column(_, _, _, _, _, _)
measure_auto_column(g, rcols_, size_x, x, y, resolved) ==
    IF y >= Len(g.rows) THEN resolved
    ELSE
    LET pp == parent_cell_position(g, x, y)
        parent == cell(g, pp.x, pp.y)
        colspan == effective_colspan_of_cell(g, parent.colspan)
        already_covered_width == cell_spanned_width(g, rcols_, parent.colspan, pp.x)
    IN  IF ~pp.some \/ pp.y # y \/ ~counts_for_column(g, size_x, x, pp.x, colspan)
        THEN measure_auto_column(g, rcols_, size_x, x, y + 1, resolved)
        ELSE measure_auto_column(g, rcols_, size_x, x, y + 1,
                                 Max(resolved, parent.w - already_covered_width))

\* GridLayouter::measure_auto_columns, from column x on: the widths of the
\* auto columns, their sum and their number.
RECURSIVE measure_auto_columns(_, _, _, _, _, _)
measure_auto_columns(g, rcols_, size_x, x, auto, count) ==
    IF x >= Len(g.cols) THEN [rcols |-> rcols_, auto |-> auto, count |-> count]
    ELSE IF g.cols[x + 1] # Auto
    THEN measure_auto_columns(g, rcols_, size_x, x + 1, auto, count)
    ELSE LET resolved == measure_auto_column(g, rcols_, size_x, x, 0, 0)
         IN  measure_auto_columns(g, [rcols_ EXCEPT ![x + 1] = resolved], size_x,
                                  x + 1, auto + resolved, count + 1)

\* A mutant of grow_fractional_columns: every fractional column gets the
\* whole remaining space.
grow_fractional_columns_whole(cols, rcols_, remaining, fr) ==
    [i \in 1..Len(cols) |-> IF cols[i].kind = "Fr" THEN remaining ELSE rcols_[i]]

\* GridLayouter::grow_fractional_columns
grow_fractional_columns(cols, rcols_, remaining, fr) ==
    IF fr = 0 THEN rcols_
    ELSE [i \in 1..Len(cols) |->
             IF cols[i].kind = "Fr" THEN share(cols[i].v, fr, remaining) ELSE rcols_[i]]

\* A mutant of shrink_pass: no column ever leaves the pool.
shrink_pass_keep_all(cols, rcols_, i, fair, prev, redistribute, overlarge) ==
    [redistribute |-> redistribute, overlarge |-> overlarge]

\* One pass of the for loop inside the while loop of shrink_auto_columns,
\* from column i on: the auto columns that are not overlarge leave the pool.
RECURSIVE shrink_pass(_, _, _, _, _, _, _)
shrink_pass(cols, rcols_, i, fair, prev, redistribute, overlarge) ==
    IF i > Len(cols)
    THEN [redistribute |-> redistribute, overlarge |-> overlarge]
    ELSE IF cols[i] = Auto /\ rcols_[i] <= fair /\ rcols_[i] > prev
    THEN shrink_pass(cols, rcols_, i + 1, fair, prev,
                     redistribute - rcols_[i], overlarge - 1)
    ELSE shrink_pass(cols, rcols_, i + 1, fair, prev, redistribute, overlarge)

\* The while loop of shrink_auto_columns: the fair share it ends with.
RECURSIVE shrink_loop(_, _, _, _, _, _)
shrink_loop(cols, rcols_, fair, redistribute, overlarge, changed) ==
    IF ~(changed /\ overlarge > 0) THEN fair
    ELSE LET new_fair == redistribute \div overlarge
             pass == shrink_pass(cols, rcols_, 1, new_fair, fair, redistribute,
                                 overlarge)
         IN  shrink_loop(cols, rcols_, new_fair, pass.redistribute, pass.overlarge,
                         pass.overlarge # overlarge)

\* A mutant of shrink_auto_columns: the overlarge columns are not clamped.
shrink_auto_columns_unclamped(cols, rcols_, available, count) == rcols_

\* GridLayouter::shrink_auto_columns
shrink_auto_columns(cols, rcols_, available, count) ==
    LET fair == shrink_loop(cols, rcols_, -Inf, available, count, TRUE)
    IN  [i \in 1..Len(cols) |->
            IF cols[i] = Auto /\ rcols_[i] > fair THEN fair ELSE rcols_[i]]

\* GridLayouter::new: the layouter of a grid in a region of width size_x.
NewLayouter(g, size_x) ==
    /\ grid = g
    /\ regions = [size_x |-> size_x, base_x |-> size_x]
    /\ rcols = [i \in 1..Len(g.cols) |-> 0]
    /\ width = 0
    /\ cols_tmp = NoColsTmp
    /\ layouter = [NoLayouter EXCEPT !.initial = Inf]
    /\ rows_tmp = NoRowsTmp

\* measure_columns, its first loop.
ResolveRelativeColumns ==
    /\ pc = "measure_columns"
    /\ LET r == resolve_relative_columns(grid.cols, rcols)
           available == AbsSub(regions.size_x, r.rel)
       IN  /\ rcols' = r.rcols
           /\ cols_tmp' = [cols_tmp EXCEPT !.rel = r.rel, !.fr = r.fr,
                                           !.available = available]
           /\ pc' = IF available >= 0 THEN "measure_auto_columns" ELSE "sum_columns"
    /\ UNCHANGED <<tracks, gutter, resolver_vars, grid, row_vars, regions, width>>

\* measure_columns, the call of measure_auto_columns.
MeasureAutoColumns ==
    /\ pc = "measure_auto_columns"
    /\ LET m == measure_auto_columns(grid, rcols, regions.size_x, 0, 0, 0)
           remaining == AbsSub(cols_tmp.available, m.auto)
       IN  /\ rcols' = m.rcols
           /\ cols_tmp' = [cols_tmp EXCEPT !.auto = m.auto, !.count = m.count,
                                           !.remaining = remaining]
           /\ pc' = IF remaining >= 0 THEN "grow_fractional_columns"
                    ELSE "shrink_auto_columns"
    /\ UNCHANGED <<tracks, gutter, resolver_vars, grid, row_vars, regions, width>>

\* measure_columns, the call of grow_fractional_columns.
GrowFractionalColumns ==
    /\ pc = "grow_fractional_columns"
    /\ rcols' = grow_fractional_columns(grid.cols, rcols, cols_tmp.remaining,
                                        cols_tmp.fr)
    /\ pc' = "sum_columns"
    /\ UNCHANGED <<tracks, gutter, resolver_vars, grid, row_vars, regions, width, cols_tmp>>

\* measure_columns, the call of shrink_auto_columns.
ShrinkAutoColumns ==
    /\ pc = "shrink_auto_columns"
    /\ rcols' = shrink_auto_columns(grid.cols, rcols, cols_tmp.available,
                                    cols_tmp.count)
    /\ pc' = "sum_columns"
    /\ UNCHANGED <<tracks, gutter, resolver_vars, grid, row_vars, regions, width, cols_tmp>>

\* measure_columns, its end: the widths are summed up once.
SumColumns ==
    /\ pc = "sum_columns"
    /\ width' = SumAll(rcols)
    /\ pc' = "columns_done"
    /\ UNCHANGED <<tracks, gutter, resolver_vars, grid, row_vars, regions, rcols, cols_tmp>>

\* The grids given to the layouter: declared columns of every sizing, and
\* automatically positioned cells with a colspan and a measured width.
ColSizings == {Auto, Rel(3 * Scale)} \cup {Fr(v) : v \in FrValues}
ColTracks == UNION {[1..n -> ColSizings] : n \in 0..MaxColTracks}
ColGutters == {[x |-> gx, y |-> << >>] : gx \in {<< >>, <<Rel(Scale)>>}}
CellWidths == {4 * Scale, 9 * Scale}
RegionWidths == {2 * Scale, 12 * Scale, Inf}
ColCell(colspan, w) ==
    [x |-> SmartAuto, y |-> SmartAuto, colspan |-> colspan, rowspan |-> 1, w |-> w]
ColCells == {ColCell(colspan, w) : colspan \in Spans, w \in CellWidths}
ColItems == UNION {[1..n -> ColCells] : n \in 0..MaxItems}

InitColumns ==
    /\ tracks \in {[x |-> tx, y |-> << >>] : tx \in ColTracks}
    /\ gutter \in ColGutters
    /\ resolved_cells = << >>
    /\ auto_index = 0
    /\ pending_hlines = << >>
    /\ pending_vlines = << >>
    /\ nitems = 0
    /\ last = NoItem
    /\ err = "none"
    /\ pc = "measure_columns"
    /\ \E items \in ColItems, size_x \in RegionWidths :
          LET res == resolve(tracks, gutter, items)
          IN  res.err = "none" /\ NewLayouter(res.grid, size_x)

NextColumns ==
    \/ ResolveRelativeColumns
    \/ MeasureAutoColumns
    \/ GrowFractionalColumns
    \/ ShrinkAutoColumns
    \/ SumColumns

SpecColumns == InitColumns /\ [][NextColumns]_vars

(***************************************************************************)
(* GridLayouter: the rows.  Heights are integers in the unit of the        *)
(* column widths.  The operators work on the layouter's row state,         *)
(*   [regions, rrows, lrows, unbreakable_rows_left, rowspans, initial,     *)
(*    finished]                                                            *)
(* (initial is the height of self.initial).  A region stream is            *)
(*   [size_y, full, backlog, last]                                         *)
(* where last is << >> for None and <<h>> for Some(h).  A cell carries,    *)
(* besides its spans, the number of lines of its body, whether it has a    *)
(* fill, and its breakable setting ("auto", "true" or "false").            *)
(***************************************************************************)
\* The value rowspan.first_region has until the rowspan has a region.
UsizeMax == 1000000

\* The height of one line of a cell's body; a body breaks between lines.
LineH == 2 * Scale

\* Abs::fits
abs_fits(a, b) == a >= b

\* Regions::is_full
is_full(r) == abs_fits(0, r.size_y)

\* Regions::in_last
in_last(r) == Len(r.backlog) = 0 /\ (Len(r.last) = 0 \/ r.size_y = r.last[1])

\* Regions::next: the next region of the backlog, or the last one again.
regions_next(r) ==
    IF Len(r.backlog) > 0
    THEN [r EXCEPT !.size_y = Head(r.backlog), !.full = Head(r.backlog),
                   !.backlog = Tail(r.backlog)]
    ELSE IF Len(r.last) > 0
    THEN [r EXCEPT !.size_y = r.last[1], !.full = r.last[1]]
    ELSE r

\* Regions::iter: whether it yields an i-th region (from 0), and its height.
regions_iter_has(r, i) == i <= Len(r.backlog) \/ Len(r.last) > 0
regions_iter(r, i) ==
    IF i = 0 THEN r.size_y
    ELSE IF i <= Len(r.backlog) THEN r.backlog[i]
    ELSE r.last[1]

\* The frames of a body of n lines laid out into the regions pod, as their
\* heights: a line goes to the current region if it fits or if no later
\* region is larger, and to the next region otherwise.  acc is the height
\* of the frame being filled.
RECURSIVE flow(_, _, _)
flow(n, pod, acc) ==
    IF n = 0 THEN <<acc>>
    ELSE IF abs_fits(pod.size_y, LineH) \/ in_last(pod)
    THEN flow(n - 1, [pod EXCEPT !.size_y = @ - LineH], acc + LineH)
    ELSE <<acc>> \o flow(n, regions_next(pod), 0)

\* cell.measure(engine, styles, pod).into_frames(), as the frames' heights.
measure(c, pod) == flow(c.lines, pod, 0)

\* CellGrid::is_gutter_track
is_gutter_track(g, index) == g.has_gutter /\ index % 2 = 1

\* CellGrid::effective_rowspan_of_cell
effective_rowspan_of_cell(g, rowspan) ==
    IF g.has_gutter THEN 2 * rowspan - 1 ELSE rowspan

\* The rows from..to (track indexes) that the grid has.
RowsIn(g, from, to) == {yy \in from..to : yy < Len(g.rows)}

\* GridLayouter::is_unbreakable_cell: a cell is unbreakable when it says so,
\* or when it leaves the choice open and spans no auto row from y on.
is_unbreakable_cell(g, c, y) ==
    LET rowspan == effective_rowspan_of_cell(g, c.rowspan)
        spans_auto_row == \E yy \in RowsIn(g, y, y + rowspan - 1) : g.rows[yy + 1] = Auto
    IN  c.breakable = "false" \/ (c.breakable = "auto" /\ ~spans_auto_row)

\* The sum of the heights of the frame rows of lrows in the rows from..to.
LaidOutHeight(lrows, from, to) ==
    SumAll([i \in 1..Len(lrows) |->
               IF lrows[i].kind = "Frame" /\ lrows[i].y >= from /\ lrows[i].y <= to
               THEN lrows[i].height ELSE 0])

\* The sum of the heights of the rows from..to of an unbreakable row group.
GroupHeight(group, from, to) ==
    SumAll([i \in 1..Len(group.rows) |->
               IF group.rows[i].y >= from /\ group.rows[i].y <= to
               THEN group.rows[i].height ELSE 0])

\* The position in rowspans of the first rowspan of the cell at (x, y), or 0.
FindRowspan(rowspans, x, y) ==
    LET found == {k \in 1..Len(rowspans) : rowspans[k].x = x /\ rowspans[k].y = y}
    IN  IF found = {} THEN 0 ELSE CHOOSE k \in found : \A j \in found : k <= j

\* measure_auto_row: the frames already covered by the rows laid out in
\* this region are removed, and the rest is taken off the first frame.
RECURSIVE remove_covered(_, _)
remove_covered(sizes, covered) ==
    IF covered > 0 /\ Len(sizes) > 0 /\ sizes[1] <= covered
    THEN remove_covered(Tail(sizes), covered - sizes[1])
    ELSE IF Len(sizes) > 0 THEN [sizes EXCEPT ![1] = @ - covered]
    ELSE sizes

\* subtract_end_sizes: the same from the end of the sizes.
RECURSIVE subtract_end_sizes(_, _)
subtract_end_sizes(sizes, subtract) ==
    IF subtract > 0 /\ Len(sizes) > 0 /\ sizes[Len(sizes)] <= subtract
    THEN subtract_end_sizes(Pop(sizes), subtract - sizes[Len(sizes)])
    ELSE IF subtract > 0 /\ Len(sizes) > 0
    THEN [sizes EXCEPT ![Len(sizes)] = @ - subtract]
    ELSE sizes

\* measure_auto_row: the heights of the relative rows after y up to
\* last_spanned_row; with_gutter says whether the gutter rows count.
will_be_covered_height(g, y, last_spanned_row, with_gutter) ==
    SumAll([i \in 1..Len(g.rows) |->
               IF /\ i - 1 > y /\ i - 1 <= last_spanned_row
                  /\ g.rows[i].kind = "Rel"
                  /\ (with_gutter \/ ~is_gutter_track(g, i - 1))
               THEN g.rows[i].v ELSE 0])

\* measure_auto_row: `target.set_max(size)` over the common regions, and
\* the rest of the sizes appended.
merge_sizes(resolved, sizes) ==
    [i \in 1..Max(Len(resolved), Len(sizes)) |->
        IF i > Len(sizes) THEN resolved[i]
        ELSE IF i > Len(resolved) THEN sizes[i]
        ELSE Max(resolved[i], sizes[i])]

\* measure_auto_row, one iteration of its loop over the columns, for the
\* column x.  m holds the arguments of measure_auto_row:
\*   [y, can_skip, unbreakable, unbreakable_rows_left, row_group_data, sim]
\* (sim: whether the rowspan simulation finds that the gutters spanned by a
\* pending rowspan stay).  The result says what the iteration does:
\* "continue", "none" (return None), "sizes" (merge them into resolved) or
\* "pending" (push them to pending_rowspans).
measure_auto_row_cell(g, st, x, m) ==
    LET Decide(pp, rowspan, last_spanned_row, autos, height_in_this_region,
               frames, sizes, c) ==
            LET uncovered == remove_covered(sizes, height_in_this_region)
                is_effectively_unbreakable_rowspan ==
                    \/ is_unbreakable_cell(g, c, m.y)
                    \/ m.y + m.unbreakable_rows_left > last_spanned_row
            IN  IF ~pp.some \/ pp.x # x THEN [do |-> "continue", sizes |-> << >>]
                ELSE IF rowspan > 1
                        /\ (autos = {} \/ \E yy \in autos : yy > m.y \/ m.y \notin autos)
                THEN [do |-> "continue", sizes |-> << >>]
                ELSE IF /\ m.can_skip /\ ~m.unbreakable
                        /\ frames[1] = 0
                        /\ \E i \in 2..Len(frames) : frames[i] # 0
                THEN [do |-> "none", sizes |-> << >>]
                ELSE IF rowspan = 1 THEN [do |-> "sizes", sizes |-> sizes]
                ELSE IF /\ m.y # last_spanned_row /\ Len(uncovered) > 0
                        /\ g.has_gutter /\ ~is_effectively_unbreakable_rowspan
                THEN [do |-> "pending",
                      sizes |-> subtract_end_sizes(
                                    uncovered,
                                    will_be_covered_height(g, m.y, last_spanned_row,
                                                           m.sim))]
                ELSE [do |-> "sizes",
                      sizes |-> subtract_end_sizes(
                                    uncovered,
                                    will_be_covered_height(g, m.y, last_spanned_row,
                                                           TRUE))]
        Sizes(pp, rowspan, last_spanned_row, autos, height_in_this_region,
              frames_in_previous_regions, frames, c) ==
            Decide(pp, rowspan, last_spanned_row, autos, height_in_this_region, frames,
                   SubSeq(frames, frames_in_previous_regions + 1, Len(frames)), c)
        Frames(pp, rowspan, last_spanned_row, height_in_this_region, heights, c) ==
            LET frames_in_previous_regions == Len(heights)
                height ==
                    IF rowspan = 1 THEN st.regions.size_y - m.row_group_data.height
                    ELSE IF Len(heights) > 0 THEN heights[1]
                    ELSE height_in_this_region + st.regions.size_y
                backlog ==
                    IF Len(heights) = 0 THEN st.regions.backlog
                    ELSE Tail(heights) \o <<st.initial>>
                           \o (IF m.unbreakable THEN << >> ELSE st.regions.backlog)
                pod ==
                    [size_y |-> height, full |-> st.regions.full,
                     backlog |-> IF m.unbreakable /\ frames_in_previous_regions = 0
                                 THEN << >> ELSE backlog,
                     last |-> IF m.unbreakable THEN << >> ELSE st.regions.last]
            IN  Sizes(pp, rowspan, last_spanned_row,
                      {yy \in RowsIn(g, pp.y, last_spanned_row) : g.rows[yy + 1] = Auto},
                      height_in_this_region, frames_in_previous_regions,
                      measure(c, pod), c)
        Heights(pp, rowspan, last_spanned_row, k, c) ==
            Frames(pp, rowspan, last_spanned_row,
                   IF rowspan = 1 THEN 0
                   ELSE LaidOutHeight(st.lrows, pp.y, last_spanned_row)
                          + GroupHeight(m.row_group_data, pp.y, last_spanned_row),
                   IF rowspan > 1 /\ k > 0 THEN st.rowspans[k].heights ELSE << >>,
                   c)
        Rowspan(pp, rowspan, c) ==
            Heights(pp, rowspan, pp.y + rowspan - 1,
                    FindRowspan(st.rowspans, pp.x, pp.y), c)
        Cell(pp, c) == Rowspan(pp, effective_rowspan_of_cell(g, c.rowspan), c)
        Parent(pp) == Cell(pp, cell(g, pp.x, pp.y))
    IN  Parent(parent_cell_position(g, x, m.y))

\* measure_auto_row, its loop from the column x on, then the simulation of
\* the pending rowspans: [some, resolved], some = FALSE for None.
RECURSIVE measure_auto_row_from(_, _, _, _, _, _)
measure_auto_row_from(g, st, x, m, resolved, pending_rowspans) ==
    IF x >= Len(g.cols)
    THEN [some |-> TRUE,
          resolved |-> IF Len(pending_rowspans) = 0 THEN resolved
                       ELSE merge_sizes(resolved, pending_rowspans)]
    ELSE LET Column(r) ==
                 IF r.do = "none" THEN [some |-> FALSE, resolved |-> << >>]
                 ELSE IF r.do = "sizes"
                 THEN measure_auto_row_from(g, st, x + 1, m,
                                            merge_sizes(resolved, r.sizes),
                                            pending_rowspans)
                 ELSE IF r.do = "pending"
                 THEN measure_auto_row_from(g, st, x + 1, m, resolved,
                                            merge_sizes(pending_rowspans, r.sizes))
                 ELSE measure_auto_row_from(g, st, x + 1, m, resolved, pending_rowspans)
         IN  Column(measure_auto_row_cell(g, st, x, m))

\* A mutant of measure_auto_row: the first region may be skipped whatever
\* can_skip says.
measure_auto_row_skipping(g, st, m) ==
    measure_auto_row_from(g, st, 0, [m EXCEPT !.can_skip = TRUE], << >>, << >>)

\* GridLayouter::measure_auto_row
measure_auto_row(g, st, m) == measure_auto_row_from(g, st, 0, m, << >>, << >>)

\* An item of a region's frame: the frame of a row ("row") or of a rowspan
\* ("rowspan"), the rectangle of a fill ("fill") of the cell at (x, y), or
\* the segment of a vertical or horizontal line ("vline", "hline", with x
\* its place among the segments of its direction); dy is the item's
\* vertical position.
FrameItem(kind, x, y, dy, height, thickness, priority) ==
    [kind |-> kind, x |-> x, y |-> y, dy |-> dy, height |-> height,
     thickness |-> thickness, priority |-> priority]

\* An UnbreakableRowGroup: its rows, as [y, height], and their total height.
NoRowGroup == [rows |-> << >>, height |-> 0]

\* The arguments of a call of measure_auto_row.
MeasureArgs(y, can_skip, unbreakable, unbreakable_rows_left, row_group_data, sim) ==
    [y |-> y, can_skip |-> can_skip, unbreakable |-> unbreakable,
     unbreakable_rows_left |-> unbreakable_rows_left,
     row_group_data |-> row_group_data, sim |-> sim]

\* check_for_unbreakable_cells: the largest rowspan of the unbreakable cells
\* that start in the row y, or 0.
check_for_unbreakable_cells(g, y) ==
    LET Largest(spans) ==
            IF spans = {} THEN 0 ELSE CHOOSE s \in spans : \A t \in spans : t <= s
    IN  Largest({effective_rowspan_of_cell(g, cell(g, x, y).rowspan) :
                    x \in {xx \in 0..(Len(g.cols) - 1) :
                              /\ cell(g, xx, y).kind = "Cell"
                              /\ is_unbreakable_cell(g, cell(g, xx, y), y)}})

\* simulate_unbreakable_row_group, from the row y on: the rows that have to
\* stay together with the first one, with the heights they would have.
RECURSIVE simulate_unbreakable_row_group(_, _, _, _, _, _)
simulate_unbreakable_row_group(g, st, y, unbreakable_rows_left, row_group, sim) ==
    IF y >= Len(g.rows) THEN row_group
    ELSE
    LET row == g.rows[y + 1]
        Grown(height) ==
            [rows |-> Append(row_group.rows, [y |-> y, height |-> height]),
             height |-> row_group.height + height]
        Height(measured) ==
            Grown(IF row.kind = "Rel" THEN row.v
                  ELSE IF row.kind = "Fr" THEN 0
                  ELSE IF Len(measured) > 0 THEN measured[1] ELSE 0)
        Rows(left, grown) ==
            IF left = 0 THEN row_group
            ELSE IF left = 1 THEN grown
            ELSE simulate_unbreakable_row_group(g, st, y + 1, left - 1, grown, sim)
        Left(left) ==
            Rows(left,
                 Height(measure_auto_row(
                            g, st, MeasureArgs(y, FALSE, TRUE, left, row_group,
                                               sim)).resolved))
    IN  Left(Max(unbreakable_rows_left, check_for_unbreakable_cells(g, y)))

\* A Rowspan as check_for_rowspans records it.
NewRowspan(x, y, rowspan) ==
    [x |-> x, y |-> y, rowspan |-> rowspan, dy |-> 0, first_region |-> UsizeMax,
     region_full |-> 0, heights |-> << >>]

\* check_for_rowspans, from the column x on: every cell of the row y that
\* spans more than one row gets a Rowspan.
RECURSIVE check_for_rowspans(_, _, _, _)
check_for_rowspans(g, rowspans, x, y) ==
    IF x >= Len(g.cols) THEN rowspans
    ELSE LET Found(c, rowspan) ==
                 check_for_rowspans(
                     g,
                     IF c.kind = "Cell" /\ rowspan > 1
                     THEN Append(rowspans, NewRowspan(x, y, rowspan)) ELSE rowspans,
                     x + 1, y)
         IN  Found(cell(g, x, y), effective_rowspan_of_cell(g, cell(g, x, y).rowspan))

\* A mutant of push_row: the row goes before the rows of the region.
push_row_first(st, height, y) ==
    [st EXCEPT !.regions.size_y = @ - height,
               !.lrows = <<[kind |-> "Frame", height |-> height, v |-> 0, y |-> y]>>
                            \o @]

\* GridLayouter::push_row
push_row(st, height, y) ==
    [st EXCEPT !.regions.size_y = @ - height,
               !.lrows = Append(@, [kind |-> "Frame", height |-> height, v |-> 0,
                                    y |-> y])]

\* A mutant of update_rowspans: the height of a row is added to the first
\* of the rowspan's heights, whatever the region.
update_rowspans_first_height(rowspans, y, height, pos_y, current_region, full) ==
    [k \in 1..Len(rowspans) |->
        LET rowspan == rowspans[k]
            Add(first, heights) ==
                [first EXCEPT !.heights = [heights EXCEPT ![1] = @ + height]]
            Missing(first, amount_missing_heights) ==
                Add(first, first.heights \o [i \in 1..amount_missing_heights |-> 0])
            First(first) ==
                Missing(first,
                        Max(0, (current_region + 1)
                                 - (Len(first.heights) + first.first_region)))
        IN  IF y >= rowspan.y /\ y < rowspan.y + rowspan.rowspan
            THEN First(IF rowspan.first_region > current_region
                       THEN [rowspan EXCEPT !.first_region = current_region,
                                            !.dy = pos_y, !.region_full = full]
                       ELSE rowspan)
            ELSE rowspan]

\* finish_region: what placing a row of the given height at pos_y does to
\* the rowspans that span the row y.
update_rowspans(rowspans, y, height, pos_y, current_region, full) ==
    [k \in 1..Len(rowspans) |->
        LET rowspan == rowspans[k]
            Add(first, heights) ==
                [first EXCEPT !.heights = [heights EXCEPT ![Len(heights)] = @ + height]]
            Missing(first, amount_missing_heights) ==
                Add(first, first.heights \o [i \in 1..amount_missing_heights |-> 0])
            First(first) ==
                Missing(first,
                        Max(0, (current_region + 1)
                                 - (Len(first.heights) + first.first_region)))
        IN  IF y >= rowspan.y /\ y < rowspan.y + rowspan.rowspan
            THEN First(IF rowspan.first_region > current_region
                       THEN [rowspan EXCEPT !.first_region = current_region,
                                            !.dy = pos_y, !.region_full = full]
                       ELSE rowspan)
            ELSE rowspan]

\* finish_region, its loop placing the rows of the region from the i-th on:
\* the row pieces, the items of the region's frame and the rowspans.
RECURSIVE place_rows(_, _, _, _, _, _)
place_rows(rows, i, pos_y, out, current_region, full) ==
    IF i > Len(rows) THEN out
    ELSE LET row == rows[i]
         IN  place_rows(
                 rows, i + 1, pos_y + row.height,
                 [rrows |-> Append(out.rrows, [height |-> row.height, y |-> row.y]),
                  items |-> Append(out.items,
                                   FrameItem("row", 0, row.y, pos_y, row.height, 0, 0)),
                  rowspans |-> update_rowspans(out.rowspans, row.y, row.height, pos_y,
                                               current_region, full)],
                 current_region, full)

\* GridLayouter::finish_region.  (The regions of the rows are finite, so
\* that no fractional row gets an infinite height.)
finish_region(g, st) ==
    LET Finished(size_y, placed, next_regions) ==
            [st EXCEPT !.lrows = << >>,
                       !.rowspans = placed.rowspans,
                       !.finished = Append(@, [size_y |-> size_y,
                                               items |-> placed.items]),
                       !.rrows = Append(@, placed.rrows),
                       !.regions = next_regions,
                       !.initial = next_regions.size_y]
        Sized(lrows, used, fr) ==
            Finished(IF fr > 0 /\ st.initial # Inf THEN st.initial
                     ELSE Min(used, st.initial),
                     place_rows([i \in 1..Len(lrows) |->
                                    IF lrows[i].kind = "Fr"
                                    THEN [lrows[i] EXCEPT
                                             !.height = share(lrows[i].v, fr,
                                                              AbsSub(st.regions.full,
                                                                     used))]
                                    ELSE lrows[i]],
                                1, 0,
                                [rrows |-> << >>, items |-> << >>,
                                 rowspans |-> st.rowspans],
                                Len(st.finished), st.regions.full),
                     regions_next(st.regions))
        Rows(lrows) ==
            Sized(lrows,
                  SumAll([i \in 1..Len(lrows) |->
                             IF lrows[i].kind = "Frame" THEN lrows[i].height ELSE 0]),
                  SumAll([i \in 1..Len(lrows) |->
                             IF lrows[i].kind = "Fr" THEN lrows[i].v ELSE 0]))
    IN  Rows(IF Len(st.lrows) > 0 /\ is_gutter_track(g, st.lrows[Len(st.lrows)].y)
             THEN Pop(st.lrows) ELSE st.lrows)

\* check_for_unbreakable_rows: outside of a group of unbreakable rows, the
\* group starting at the row y is simulated; if it does not fit into the
\* region and a later region may be larger, the region is finished; then
\* the rows of the group are the unbreakable rows left.
check_for_unbreakable_rows(g, st, y, sim) ==
    IF st.unbreakable_rows_left # 0 THEN st
    ELSE LET Group(row_group) ==
                 [(IF ~abs_fits(st.regions.size_y, row_group.height)
                      /\ ~in_last(st.regions)
                   THEN finish_region(g, st) ELSE st)
                  EXCEPT !.unbreakable_rows_left = Len(row_group.rows)]
         IN  Group(simulate_unbreakable_row_group(g, st, y, 0, NoRowGroup, sim))

\* A mutant of layout_relative_row: a row that does not fit skips to the
\* next region also inside a group of unbreakable rows.
layout_relative_row_skipping(g, st, height, y) ==
    IF ~abs_fits(st.regions.size_y, height) /\ ~in_last(st.regions)
    THEN IF is_gutter_track(g, y) THEN finish_region(g, st)
         ELSE push_row(finish_region(g, st), height, y)
    ELSE push_row(st, height, y)

\* A mutant of layout_relative_row: a row that fits no region is left out.
layout_relative_row_fitting(g, st, height, y) ==
    IF /\ st.unbreakable_rows_left = 0
       /\ ~abs_fits(st.regions.size_y, height)
       /\ ~in_last(st.regions)
    THEN IF is_gutter_track(g, y) THEN finish_region(g, st)
         ELSE push_row(finish_region(g, st), height, y)
    ELSE IF abs_fits(st.regions.size_y, height) THEN push_row(st, height, y)
    ELSE st

\* layout_relative_row
RECURSIVE layout_relative_row(_, _, _, _)
layout_relative_row(g, st, height, y) ==
    IF /\ st.unbreakable_rows_left = 0
       /\ ~abs_fits(st.regions.size_y, height)
       /\ ~in_last(st.regions)
    THEN IF is_gutter_track(g, y) THEN finish_region(g, st)
         ELSE layout_relative_row(g, finish_region(g, st), height, y)
    ELSE push_row(st, height, y)

\* A mutant of expand_resolved: the measured heights are left as they are.
expand_resolved_none(st, resolved) == resolved

\* layout_auto_row: all the measured heights but the last become at least
\* the height of their region; the first one is left alone if the region
\* holds a fractional row.
expand_resolved(st, resolved) ==
    LET has_fr == \E i \in 1..Len(st.lrows) : st.lrows[i].kind = "Fr"
    IN  [i \in 1..Len(resolved) |->
            IF /\ i < Len(resolved)
               /\ regions_iter_has(st.regions, i - 1)
               /\ ~(i = 1 /\ has_fr)
            THEN Max(resolved[i], regions_iter(st.regions, i - 1))
            ELSE resolved[i]]

\* layout_auto_row, its last loop from the i-th frame on: each frame is
\* pushed as a row, and the region is finished after each but the last.
\* The result is the layouter's state and the heights that were left in
\* the regions the frames were pushed to.
RECURSIVE push_frames(_, _, _, _, _, _)
push_frames(g, st, heights, i, y, room) ==
    IF i > Len(heights) THEN [st |-> st, room |-> room]
    ELSE push_frames(g,
                     IF i < Len(heights) THEN finish_region(g, push_row(st, heights[i], y))
                     ELSE push_row(st, heights[i], y),
                     heights, i + 1, y, Append(room, st.regions.size_y))

\* layout_auto_row.  The result is the layouter's state and, for the
\* record, the heights measure_auto_row resolved, whether the region was
\* skipped to remeasure, and the heights left in the regions.
layout_auto_row(g, st, y, sim) ==
    LET unbreakable == st.unbreakable_rows_left > 0
        Pushed(first, st1, resolved, pushed) ==
            [st |-> pushed.st, resolved |-> resolved, skipped |-> ~first.some,
             had_fr |-> \E i \in 1..Len(st1.lrows) : st1.lrows[i].kind = "Fr",
             room |-> pushed.room]
        Resolved(first, st1, resolved) ==
            Pushed(first, st1, resolved,
                   IF Len(resolved) = 0 THEN [st |-> st1, room |-> << >>]
                   ELSE IF Len(resolved) = 1
                   THEN [st |-> push_row(st1, resolved[1], y),
                         room |-> <<st1.regions.size_y>>]
                   ELSE push_frames(g, st1, expand_resolved(st1, resolved), 1, y,
                                    << >>))
        Remeasured(first, st1) ==
            Resolved(first, st1,
                     IF first.some THEN first.resolved
                     ELSE measure_auto_row(
                              g, st1, MeasureArgs(y, FALSE, unbreakable,
                                                  st.unbreakable_rows_left, NoRowGroup,
                                                  sim)).resolved)
        Measured(first) ==
            Remeasured(first, IF first.some THEN st ELSE finish_region(g, st))
    IN  Measured(measure_auto_row(
                     g, st, MeasureArgs(y, TRUE, unbreakable, st.unbreakable_rows_left,
                                        NoRowGroup, sim)))

\* layout_rowspans, for the frames from the i-th on of the rowspan: each
\* frame goes into the region first_region + i - 1, the first one at dy and
\* the others at the top.
RECURSIVE push_rowspan_frames(_, _, _)
push_rowspan_frames(finished, rowspan, i) ==
    IF i > Len(rowspan.heights) \/ rowspan.first_region + i > Len(finished)
    THEN finished
    ELSE push_rowspan_frames(
             [finished EXCEPT ![rowspan.first_region + i].items =
                 Append(@, FrameItem("rowspan", rowspan.x, rowspan.y,
                                     IF i = 1 THEN rowspan.dy ELSE 0,
                                     rowspan.heights[i], 0, 0))],
             rowspan, i + 1)

\* layout_rowspans: the rowspans are laid out in the order they were found.
RECURSIVE layout_rowspans(_, _)
layout_rowspans(finished, rowspans) ==
    IF rowspans = << >> THEN finished
    ELSE layout_rowspans(push_rowspan_frames(finished, Head(rowspans), 1),
                         Tail(rowspans))

\* layout, the head of its loop over the rows: a full region is finished
\* before a content row, and a gutter row at the top of a region is left out.
RowFlush ==
    /\ pc = "row_begin"
    /\ rows_tmp.y < Len(grid.rows)
    /\ LET y == rows_tmp.y
           is_content_row == ~is_gutter_track(grid, y)
           Flushed(flushed) ==
               IF is_content_row \/ Len(flushed.lrows) > 0
               THEN /\ layouter' = flushed
                    /\ rows_tmp' = rows_tmp
                    /\ pc' = "row_check"
               ELSE /\ layouter' = [flushed EXCEPT
                                       !.unbreakable_rows_left = Max(0, @ - 1)]
                    /\ rows_tmp' = [rows_tmp EXCEPT !.y = y + 1]
                    /\ pc' = "row_begin"
       IN  Flushed(IF /\ layouter.unbreakable_rows_left = 0
                      /\ is_full(layouter.regions)
                      /\ is_content_row
                   THEN finish_region(grid, layouter) ELSE layouter)
    /\ UNCHANGED <<tracks, gutter, resolver_vars, grid, regions, rcols, width, cols_tmp>>

\* layout, the two checks before a row is laid out.
CheckRow(sim) ==
    /\ pc = "row_check"
    /\ layouter' = check_for_unbreakable_rows(
                       grid,
                       [layouter EXCEPT
                           !.rowspans = check_for_rowspans(grid, @, 0, rows_tmp.y)],
                       rows_tmp.y, sim)
    /\ pc' = "row_layout"
    /\ UNCHANGED <<tracks, gutter, resolver_vars, grid, regions, rcols, width, cols_tmp,
                   rows_tmp>>

\* layout, the row itself and the end of the loop's body.
LayoutRow(sim) ==
    /\ pc = "row_layout"
    /\ LET y == rows_tmp.y
           row == grid.rows[y + 1]
           Laid(auto) ==
               /\ layouter' =
                     [(IF row.kind = "Auto" THEN auto.st
                       ELSE IF row.kind = "Rel"
                       THEN layout_relative_row(grid, layouter, row.v, y)
                       ELSE [layouter EXCEPT !.lrows =
                                Append(@, [kind |-> "Fr", height |-> 0, v |-> row.v,
                                           y |-> y])])
                      EXCEPT !.unbreakable_rows_left = Max(0, @ - 1)]
               /\ rows_tmp' =
                     IF row.kind = "Auto"
                     THEN [rows_tmp EXCEPT !.y = y + 1, !.row = y,
                                           !.resolved = auto.resolved,
                                           !.skipped = auto.skipped,
                                           !.had_fr = auto.had_fr, !.room = auto.room]
                     ELSE [rows_tmp EXCEPT !.y = y + 1, !.row = -1,
                                           !.resolved = << >>, !.skipped = FALSE,
                                           !.had_fr = FALSE, !.room = << >>]
       IN  Laid(layout_auto_row(grid, layouter, y, sim))
    /\ pc' = "row_begin"
    /\ UNCHANGED <<tracks, gutter, resolver_vars, grid, regions, rcols, width, cols_tmp>>

\* layout, after the loop: the last region is finished.
FinishLast ==
    /\ pc = "row_begin"
    /\ rows_tmp.y = Len(grid.rows)
    /\ layouter' = finish_region(grid, layouter)
    /\ pc' = "layout_rowspans"
    /\ UNCHANGED <<tracks, gutter, resolver_vars, grid, regions, rcols, width, cols_tmp,
                   rows_tmp>>

\* layout, the call of layout_rowspans.
LayoutRowspans ==
    /\ pc = "layout_rowspans"
    /\ layouter' = [layouter EXCEPT !.finished = layout_rowspans(@, layouter.rowspans)]
    /\ pc' = "render"
    /\ UNCHANGED <<tracks, gutter, resolver_vars, grid, regions, rcols, width, cols_tmp,
                   rows_tmp>>

\* The heights of the row pieces of a region that lie in the rows from..to.
PiecesHeight(rows, from, to) ==
    SumAll([i \in 1..Len(rows) |->
               IF rows[i].y >= from /\ rows[i].y <= to THEN rows[i].height ELSE 0])

\* render_fills_strokes: `rows.iter().find(|row| row.y >= parent_y)`, as the
\* position of that row piece, or 0.
FirstSpannedRow(rows, parent_y) ==
    LET First(found) ==
            IF found = {} THEN 0 ELSE CHOOSE i \in found : \A j \in found : i <= j
    IN  First({i \in 1..Len(rows) : rows[i].y >= parent_y})

\* A mutant of fill_at: the fill is drawn at every row piece of the cell.
fill_at_every_row(g, rows, x, i) ==
    LET row == rows[i]
        Fill(pp, c) ==
            IF ~pp.some \/ pp.x # x \/ ~c.fill THEN << >>
            ELSE <<FrameItem("fill", pp.x, pp.y, 0, row.height, 0, 0)>>
        Parent(pp) == Fill(pp, cell(g, pp.x, pp.y))
    IN  Parent(parent_cell_position(
                   g, x, row.y + (IF g.has_gutter THEN row.y % 2 ELSE 0)))

\* render_fills_strokes, the fills of a region: the body of the loops over
\* the columns x and the row pieces i, as the fills it pushes.
fill_at(g, rows, x, i) ==
    LET row == rows[i]
        Fill(pp, first, c, rowspan) ==
            LET is_effective_parent_y ==
                    \/ pp.y = row.y
                    \/ pp.y < row.y /\ first > 0 /\ rows[first].y = row.y
                height == IF rowspan = 1 THEN row.height
                          ELSE PiecesHeight(rows, pp.y, pp.y + rowspan - 1)
            IN  IF ~pp.some \/ pp.x # x THEN << >>
                ELSE IF is_effective_parent_y /\ c.fill
                THEN <<FrameItem("fill", pp.x, pp.y,
                                 SumRange([k \in 1..Len(rows) |-> rows[k].height],
                                          1, i - 1),
                                 height, 0, 0)>>
                ELSE << >>
        Cell(pp, c) ==
            Fill(pp, FirstSpannedRow(rows, pp.y), c,
                 effective_rowspan_of_cell(g, c.rowspan))
        Parent(pp) == Cell(pp, cell(g, pp.x, pp.y))
    IN  Parent(parent_cell_position(
                   g, x, row.y + (IF g.has_gutter THEN row.y % 2 ELSE 0)))

\* render_fills_strokes, the fills of a region from the column x and the
\* row piece i on.
RECURSIVE fills_from(_, _, _, _)
fills_from(g, rows, x, i) ==
    IF x >= Len(g.cols) THEN << >>
    ELSE IF i > Len(rows) THEN fills_from(g, rows, x + 1, 1)
    ELSE fill_at(g, rows, x, i) \o fills_from(g, rows, x, i + 1)

\* The key lines are sorted by: (thickness, priority), in this order.
KeyLeq(a, b) ==
    \/ a.thickness < b.thickness
    \/ a.thickness = b.thickness /\ a.priority <= b.priority

\* A mutant of insert_sorted: a line goes before the lines of its key.
insert_sorted_before(sorted, line) ==
    LET Insert(n) ==
            SubSeq(sorted, 1, n) \o <<line>> \o SubSeq(sorted, n + 1, Len(sorted))
    IN  Insert(Cardinality({i \in 1..Len(sorted) :
                               KeyLeq(sorted[i], line) /\ ~KeyLeq(line, sorted[i])}))

\* A stable sort puts a line after the sorted lines that are not larger.
insert_sorted(sorted, line) ==
    LET Insert(n) ==
            SubSeq(sorted, 1, n) \o <<line>> \o SubSeq(sorted, n + 1, Len(sorted))
    IN  Insert(Cardinality({i \in 1..Len(sorted) : KeyLeq(sorted[i], line)}))

\* lines.sort_by_key(|(thickness, priority, ..)| (*thickness, *priority))
RECURSIVE sort_by_key(_, _)
sort_by_key(lines, sorted) ==
    IF lines = << >> THEN sorted
    ELSE sort_by_key(Tail(lines), insert_sorted(sorted, Head(lines)))

\* The segments generate_line_segments yields for the lines of a direction,
\* in the order they are collected in.
LineSegments(kind, segments) ==
    [i \in 1..Len(segments) |->
        FrameItem(kind, i, 0, 0, 0, segments[i][1], segments[i][2])]

\* frame.prepend_multiple(fills.chain(lines))
prepend_frame(frame, fills, lines) ==
    [frame EXCEPT !.items = fills \o lines \o @]

\* render_fills_strokes, for one region: the vertical segments are
\* collected, then the horizontal ones, and sorted; then the fills; then
\* all of them are prepended to the frame.
render_frame(g, rcols_, frame, rows, vsegments, hsegments) ==
    IF Len(rcols_) = 0 \/ Len(rows) = 0 THEN frame
    ELSE prepend_frame(frame, fills_from(g, rows, 0, 1),
                       sort_by_key(LineSegments("vline", vsegments)
                                     \o LineSegments("hline", hsegments), << >>))

\* layout, the call of render_fills_strokes.
RenderFillsStrokes(vsegments, hsegments) ==
    /\ pc = "render"
    /\ layouter' =
          [layouter EXCEPT !.finished =
              [r \in 1..Len(@) |->
                  render_frame(grid, rcols, @[r], layouter.rrows[r], vsegments,
                               hsegments)]]
    /\ pc' = "laid_out"
    /\ UNCHANGED <<tracks, gutter, resolver_vars, grid, regions, rcols, width, cols_tmp,
                   rows_tmp>>

\* The grids whose rows are laid out: MaxTracks columns of a fixed width,
\* declared rows of every sizing, with or without a gutter between the
\* rows, and automatically positioned cells with a rowspan and a body.
MaxRows == 2
MaxSegments == 1

RowSizings == {Auto, Rel(Scale), Fr(1)}
RowTracks ==
    {[x |-> [i \in 1..MaxTracks |-> Rel(3 * Scale)], y |-> ty] :
        ty \in UNION {[1..n -> RowSizings] : n \in 0..MaxRows}}
RowGutters == {[x |-> << >>, y |-> gy] : gy \in {<< >>, <<Rel(Scale)>>}}

\* A body of the given number of lines in a cell of the given rowspan.
CellBody(rowspan, lines, fill, breakable) ==
    [rowspan |-> rowspan, lines |-> lines, fill |-> fill, breakable |-> breakable]
CellBodies ==
    {CellBody(1, 1, TRUE, "auto"), CellBody(1, 3, FALSE, "auto"),
     CellBody(MaxSpan, 3, TRUE, "auto"), CellBody(MaxSpan, 1, TRUE, "false")}
RowItems == UNION {[1..n -> CellBodies] : n \in 0..MaxItems}

\* The regions given to the layouter: the first region, the backlog, and
\* the last region, which repeats.  The first region is a whole region, or
\* what is left of one (its height is smaller than its full height).
GivenRegions(size_y, backlog, last_) ==
    [size_y |-> size_y, full |-> size_y, backlog |-> backlog, last |-> last_]
RowRegions ==
    {GivenRegions(5 * Scale, << >>, << >>),
     GivenRegions(3 * Scale, <<5 * Scale>>, <<5 * Scale>>),
     GivenRegions(2 * Scale, <<3 * Scale>>, <<5 * Scale>>),
     [GivenRegions(3 * Scale, <<5 * Scale>>, <<5 * Scale>>) EXCEPT !.full = 5 * Scale]}

\* The cells of the items as resolve takes them: the body has a width.
BodyCells(bodies) ==
    [k \in 1..Len(bodies) |->
        [x |-> SmartAuto, y |-> SmartAuto, colspan |-> 1,
         rowspan |-> bodies[k].rowspan, w |-> Scale]]

\* The entries resolve returned, each cell with what layout reads of it:
\* the k-th cell of the items has the k-th body, and a cell resolve made up
\* for an empty slot has an empty body, no fill, and breakable auto.
WithBodies(entries, bodies) ==
    [i \in 1..Len(entries) |->
        LET k == Cardinality({j \in 1..i : entries[j].kind = "Cell"
                                             /\ entries[j].w # 0})
            given == entries[i].kind = "Cell" /\ entries[i].w # 0
        IN  entries[i] @@
            [lines |-> IF given THEN bodies[k].lines ELSE 0,
             fill |-> IF given THEN bodies[k].fill ELSE FALSE,
             breakable |-> IF given THEN bodies[k].breakable ELSE "auto"]]

\* The keys (thickness, priority) of the segments of the lines of a
\* direction, in the order generate_line_segments yields them.
SegmentKeys == {<<1, 0>>, <<1, 1>>, <<2, 0>>}
Segments == UNION {[1..n -> SegmentKeys] : n \in 0..MaxSegments}

\* The layouter after measure_columns, before the loop over the rows.
InitRows ==
    /\ tracks \in RowTracks
    /\ gutter \in RowGutters
    /\ resolved_cells = << >>
    /\ auto_index = 0
    /\ pending_hlines = << >>
    /\ pending_vlines = << >>
    /\ nitems = 0
    /\ last = NoItem
    /\ err = "none"
    /\ pc = "row_begin"
    /\ regions = [size_x |-> 12 * Scale, base_x |-> 12 * Scale]
    /\ cols_tmp = NoColsTmp
    /\ \E bodies \in RowItems, given \in RowRegions :
          \E res \in {resolve(tracks, gutter, BodyCells(bodies))} :
              /\ res.err = "none"
              /\ grid = [res.grid EXCEPT !.entries = WithBodies(@, bodies)]
              /\ rcols = resolve_relative_columns(
                             res.grid.cols, [i \in 1..Len(res.grid.cols) |-> 0]).rcols
              /\ width = SumAll(rcols)
              /\ layouter = [NoLayouter EXCEPT !.regions = given,
                                              !.initial = given.size_y]
              /\ rows_tmp = [NoRowsTmp EXCEPT !.given = given]

NextRows ==
    \/ RowFlush
    \/ \E sim \in BOOLEAN : CheckRow(sim)
    \/ \E sim \in BOOLEAN : LayoutRow(sim)
    \/ FinishLast
    \/ LayoutRowspans
    \/ \E vsegments \in Segments, hsegments \in Segments :
          RenderFillsStrokes(vsegments, hsegments)

SpecRows == InitRows /\ [][NextRows]_vars

(***************************************************************************)
(* The horizontal placement of the cells and of their fills.               *)
(***************************************************************************)
\* `(0..n).rev_if(is_rtl)`: the columns in the order the loops take them.
rev_if(n, is_rtl) == [i \in 1..n |-> IF is_rtl THEN n - i ELSE i - 1]

\* A mutant of layout_single_row: the frame of a cell is not translated.
RECURSIVE layout_single_row_untranslated(_, _, _, _, _, _)
layout_single_row_untranslated(g, rcols_, is_rtl, y, xs, pos_x) ==
    IF xs = << >> THEN << >>
    ELSE LET x == Head(xs)
             c == cell(g, x, y)
             Placed(spanned) ==
                 <<[x |-> x, y |-> y, pos_x |-> pos_x, width |-> spanned]>>
         IN  (IF c.kind = "Cell" /\ c.rowspan = 1
              THEN Placed(cell_spanned_width(g, rcols_, c.colspan, x))
              ELSE << >>)
             \o layout_single_row_untranslated(g, rcols_, is_rtl, y, Tail(xs),
                                               pos_x + rcols_[x + 1])

\* GridLayouter::layout_single_row: the frames of the cells of the row y
\* pushed to the row's frame, from the columns xs on, each as the column and
\* row of the cell, the x of its frame in the row's frame and its width.
RECURSIVE layout_single_row(_, _, _, _, _, _)
layout_single_row(g, rcols_, is_rtl, y, xs, pos_x) ==
    IF xs = << >> THEN << >>
    ELSE LET x == Head(xs)
             c == cell(g, x, y)
             Placed(spanned) ==
                 <<[x |-> x, y |-> y,
                    pos_x |-> pos_x + (IF is_rtl THEN -spanned + rcols_[x + 1] ELSE 0),
                    width |-> spanned]>>
         IN  (IF c.kind = "Cell" /\ c.rowspan = 1
              THEN Placed(cell_spanned_width(g, rcols_, c.colspan, x))
              ELSE << >>)
             \o layout_single_row(g, rcols_, is_rtl, y, Tail(xs), pos_x + rcols_[x + 1])

\* render_fills_strokes, the fills of a region with their rectangles: the
\* loops over the columns xs and the row pieces from i on; a fill fill_at
\* pushes is at `dx + offset` and as wide as the columns its cell spans.
RECURSIVE placed_fills_from(_, _, _, _, _, _, _)
placed_fills_from(g, rcols_, is_rtl, rows, xs, i, dx) ==
    IF xs = << >> THEN << >>
    ELSE IF i > Len(rows)
    THEN placed_fills_from(g, rcols_, is_rtl, rows, Tail(xs), 1,
                           dx + rcols_[Head(xs) + 1])
    ELSE LET x == Head(xs)
             Placed(fills, spanned) ==
                 [k \in 1..Len(fills) |->
                     fills[k] @@
                     [pos_x |-> dx + (IF is_rtl THEN -spanned + rcols_[x + 1] ELSE 0),
                      width |-> spanned]]
             Fills(fills) ==
                 IF fills = << >> THEN << >>
                 ELSE Placed(fills,
                             cell_spanned_width(
                                 g, rcols_, cell(g, fills[1].x, fills[1].y).colspan, x))
         IN  Fills(fill_at(g, rows, x, i))
             \o placed_fills_from(g, rcols_, is_rtl, rows, xs, i + 1, dx)

\* layout, its loop over the rows, of rows that fit the region: each row
\* is laid out by layout_single_row, one line high, and pushed.
LayoutSingleRows ==
    /\ pc = "columns_done"
    /\ layouter' =
          [layouter EXCEPT
              !.lrows =
                  [i \in 1..Len(grid.rows) |->
                      [kind |-> "Frame", height |-> LineH, v |-> 0, y |-> i - 1,
                       cells |-> layout_single_row(
                                     grid, rcols, layouter.is_rtl, i - 1,
                                     rev_if(Len(rcols), layouter.is_rtl), 0)]],
              !.regions.size_y = @ - Len(grid.rows) * LineH]
    /\ rows_tmp' = [rows_tmp EXCEPT !.y = Len(grid.rows)]
    /\ pc' = "row_begin"
    /\ UNCHANGED <<tracks, gutter, resolver_vars, grid, regions, rcols, width, cols_tmp>>

\* layout, the call of render_fills_strokes: the fills of each region are
\* prepended to its frame.
RenderFills ==
    /\ pc = "render"
    /\ layouter' =
          [layouter EXCEPT !.finished =
              [r \in 1..Len(@) |->
                  IF Len(rcols) = 0 \/ Len(layouter.rrows[r]) = 0 THEN @[r]
                  ELSE prepend_frame(
                           @[r],
                           placed_fills_from(grid, rcols, layouter.is_rtl,
                                             layouter.rrows[r],
                                             rev_if(Len(rcols), layouter.is_rtl), 1, 0),
                           << >>)]]
    /\ pc' = "laid_out"
    /\ UNCHANGED <<tracks, gutter, resolver_vars, grid, regions, rcols, width, cols_tmp,
                   rows_tmp>>

\* The grids whose cells are placed: those of the columns' measurement in
\* a region wide enough, in either direction of the text; the cells given
\* have a fill, the cells made up for empty slots have none.
PlacementRegion == GivenRegions(12 * Scale, << >>, << >>)
InitPlacement ==
    /\ tracks \in {[x |-> tx, y |-> << >>] : tx \in ColTracks}
    /\ gutter \in ColGutters
    /\ resolved_cells = << >>
    /\ auto_index = 0
    /\ pending_hlines = << >>
    /\ pending_vlines = << >>
    /\ nitems = 0
    /\ last = NoItem
    /\ err = "none"
    /\ pc = "measure_columns"
    /\ regions = [size_x |-> 12 * Scale, base_x |-> 12 * Scale]
    /\ width = 0
    /\ cols_tmp = NoColsTmp
    /\ rows_tmp = [NoRowsTmp EXCEPT !.given = PlacementRegion]
    /\ \E items \in ColItems, is_rtl \in BOOLEAN :
          \E res \in {resolve(tracks, gutter, items)} :
              /\ res.err = "none"
              /\ grid = [res.grid EXCEPT
                            !.entries =
                                [i \in 1..Len(@) |->
                                    @[i] @@ [fill |-> @[i].kind = "Cell" /\ @[i].w # 0]]]
              /\ rcols = [i \in 1..Len(res.grid.cols) |-> 0]
              /\ layouter = [NoLayouter EXCEPT !.regions = PlacementRegion,
                                              !.initial = PlacementRegion.size_y]
                            @@ [is_rtl |-> is_rtl]

NextPlacement ==
    \/ ResolveRelativeColumns
    \/ MeasureAutoColumns
    \/ GrowFractionalColumns
    \/ ShrinkAutoColumns
    \/ SumColumns
    \/ LayoutSingleRows
    \/ FinishLast
    \/ LayoutRowspans
    \/ RenderFills

SpecPlacement == InitPlacement /\ [][NextPlacement]_vars

(***************************************************************************)
(* Properties of the layout of the rows.                                   *)
(***************************************************************************)
\* C12: the rows of an unbreakable row group go to one region.  While
\* unbreakable_rows_left is positive no step of layout finishes a region:
\* the head of the loop does not flush a full region, a relative row that
\* does not fit does not skip to the next region, and an auto row is
\* measured to at most one height and never remeasured after a skip.
C12_UnbreakableGroupInOneRegion ==
    [][layouter.unbreakable_rows_left > 0 =>
          /\ Len(layouter'.finished) = Len(layouter.finished)
          /\ (pc = "row_layout" /\ grid.rows[rows_tmp.y + 1].kind = "Auto") =>
                /\ Len(rows_tmp'.resolved) <= 1
                /\ ~rows_tmp'.skipped]_vars

\* A relative row of an unbreakable row group was laid out into a region it
\* does not fit into, though it is not in the last region.
C12_Witness ==
    /\ pc = "row_begin"
    /\ layouter.unbreakable_rows_left > 0
    /\ Len(layouter.lrows) > 0
    /\ layouter.lrows[Len(layouter.lrows)].y = rows_tmp.y - 1
    /\ grid.rows[rows_tmp.y].kind = "Rel"
    /\ layouter.regions.size_y < 0
    /\ ~in_last(layouter.regions)

\* C13: gutter rows are left out at the boundaries of a region.  In every
\* finished region the first row piece and the last row piece are pieces
\* of content rows.
C13_NoGutterAtRegionBoundary ==
    \A r \in 1..Len(layouter.rrows) :
        LET rows == layouter.rrows[r]
        IN  Len(rows) > 0 =>
               /\ ~is_gutter_track(grid, rows[1].y)
               /\ ~is_gutter_track(grid, rows[Len(rows)].y)

\* The step of layout that lays out the auto row y.
AutoRowStep == pc = "row_layout" /\ pc' = "row_begin" /\ rows_tmp'.row = rows_tmp.y

\* The number of the row pieces of the row y in a list of rows.
PiecesOf(rows, y) == Cardinality({i \in 1..Len(rows) : rows[i].y = y})

\* C14: an auto row measured to k > 1 heights becomes exactly k row pieces
\* of the row, the last pieces of k consecutive regions, of which all but
\* the last region are finished by the step; each piece but the last is at
\* least as high as what was left of its region, but for the first piece
\* when the region held a fractional row.  A row measured to one height
\* becomes one piece of the current region, and no region is finished for
\* it.  (A region skipped to remeasure the row is finished before the
\* heights are known, and is not counted.)
C14_AutoRowPieces ==
    [][AutoRowStep =>
          LET y == rows_tmp.y
              k == Len(rows_tmp'.resolved)
              before == Len(layouter.finished) + (IF rows_tmp'.skipped THEN 1 ELSE 0)
              held == IF rows_tmp'.skipped THEN 0 ELSE Len(layouter.lrows)
              lrows == layouter'.lrows
              piece(i) == IF i = k THEN lrows[Len(lrows)]
                          ELSE LET rows == layouter'.rrows[before + i]
                               IN  rows[Len(rows)]
          IN  /\ k = 1 =>
                    /\ Len(layouter'.finished) = before
                    /\ Len(lrows) = held + 1
                    /\ lrows[held + 1].y = y
                    /\ lrows[held + 1].height = rows_tmp'.resolved[1]
              /\ k > 1 =>
                    /\ Len(layouter'.finished) = before + k - 1
                    /\ Len(lrows) = 1
                    /\ \A i \in 1..k :
                          /\ piece(i).y = y
                          /\ piece(i).height >= rows_tmp'.resolved[i]
                          /\ (i < k /\ ~(i = 1 /\ rows_tmp'.had_fr)) =>
                                piece(i).height >= rows_tmp'.room[i]
                    /\ \A r \in 1..Len(layouter'.rrows) :
                          PiecesOf(layouter'.rrows[r], y) =
                              IF r > before /\ r < before + k THEN 1 ELSE 0]_vars

\* An auto row was laid out into more than one region, and its first piece
\* was made higher than measured to fill its region.
C14_Witness ==
    /\ pc = "row_begin"
    /\ rows_tmp.row >= 0
    /\ Len(rows_tmp.resolved) > 1
    /\ rows_tmp.room[1] > rows_tmp.resolved[1]
    /\ ~rows_tmp.had_fr

\* The cells of the grid that have a fill, as the positions of their
\* entries (from 0).
FilledCells ==
    {n \in 0..(Len(grid.entries) - 1) :
        grid.entries[n + 1].kind = "Cell" /\ grid.entries[n + 1].fill}

\* The column and the first and the last row a cell spans, gutters included.
CellColumn(n) ==
    LET c == IF grid.has_gutter THEN 1 + (Len(grid.cols) \div 2) ELSE Len(grid.cols)
    IN  (IF grid.has_gutter THEN 2 ELSE 1) * (n % c)
CellFirstRow(n) ==
    LET c == IF grid.has_gutter THEN 1 + (Len(grid.cols) \div 2) ELSE Len(grid.cols)
    IN  (IF grid.has_gutter THEN 2 ELSE 1) * (n \div c)
CellLastRow(n) ==
    CellFirstRow(n)
      + (IF grid.has_gutter THEN 2 * grid.entries[n + 1].rowspan - 1
         ELSE grid.entries[n + 1].rowspan) - 1

\* The fills rendered in the region r for the cell n, as their places among
\* the items of the region's frame.
FillsOf(n, r) ==
    LET items == layouter.finished[r].items
    IN  {i \in 1..Len(items) :
            /\ items[i].kind = "fill"
            /\ items[i].x = CellColumn(n)
            /\ items[i].y = CellFirstRow(n)}

\* The row pieces of the region r in the rows of the cell n.
SpannedPieces(n, r) ==
    {i \in 1..Len(layouter.rrows[r]) :
        /\ layouter.rrows[r][i].y >= CellFirstRow(n)
        /\ layouter.rrows[r][i].y <= CellLastRow(n)}

\* C15: once the fills are rendered, a cell with a fill has one fill in a
\* region that holds a row piece of the rows the cell spans (gutter rows
\* included) and none in any other region; the fill starts where the
\* first such row piece of the region starts, and is as high as all such
\* row pieces of the region together.
C15_OneFillPerRegion ==
    pc = "laid_out" =>
        \A n \in FilledCells, r \in 1..Len(layouter.finished) :
            LET rows == layouter.rrows[r]
                spanned == SpannedPieces(n, r)
                first == CHOOSE i \in spanned : \A j \in spanned : i <= j
                items == layouter.finished[r].items
            IN  IF spanned = {} THEN FillsOf(n, r) = {}
                ELSE /\ Cardinality(FillsOf(n, r)) = 1
                     /\ \A i \in FillsOf(n, r) :
                           /\ items[i].dy =
                                 SumAll([j \in 1..(first - 1) |-> rows[j].height])
                           /\ items[i].height =
                                 SumAll([j \in 1..Len(rows) |->
                                            IF j \in spanned THEN rows[j].height
                                            ELSE 0])

\* The fills are rendered, and a cell spanning several rows has a fill in
\* two regions, in one of them over more than one row piece.
C15_Witness ==
    /\ pc = "laid_out"
    /\ \E n \in FilledCells :
          /\ grid.entries[n + 1].rowspan > 1
          /\ \E r1, r2 \in 1..Len(layouter.finished) :
                /\ r1 < r2
                /\ FillsOf(n, r1) # {}
                /\ FillsOf(n, r2) # {}
                /\ Cardinality(SpannedPieces(n, r1)) > 1

\* The regions as they are after n calls of Regions::next.
RECURSIVE NthRegion(_, _)
NthRegion(r, n) == IF n = 0 THEN r ELSE NthRegion(regions_next(r), n - 1)

\* The finished regions (from 1) with a row piece in the rows of a rowspan.
RegionsOf(rowspan) ==
    {r \in 1..Len(layouter.rrows) :
        \E i \in 1..Len(layouter.rrows[r]) :
            /\ layouter.rrows[r][i].y >= rowspan.y
            /\ layouter.rrows[r][i].y < rowspan.y + rowspan.rowspan}

\* C16: the record of a rowspan that has a first region is that of the
\* finished regions.  first_region is the first finished region with a row
\* piece in the rows of the rowspan; dy is where the first such row piece
\* of that region starts; region_full is the full height of that region;
\* and each of the heights is the sum of the heights of the row pieces of
\* its region in the rows of the rowspan.
C16_RowspanLedger ==
    \A k \in 1..Len(layouter.rowspans) :
        LET rowspan == layouter.rowspans[k]
            f == rowspan.first_region
            spanned == RegionsOf(rowspan)
            rows == layouter.rrows[f + 1]
            first == CHOOSE i \in 1..Len(rows) :
                        /\ rows[i].y >= rowspan.y
                        /\ rows[i].y < rowspan.y + rowspan.rowspan
                        /\ \A j \in 1..(i - 1) : rows[j].y < rowspan.y
        IN  IF f = UsizeMax THEN spanned = {}
            ELSE /\ f + 1 \in spanned
                 /\ \A r \in spanned : f + 1 <= r
                 /\ rowspan.dy = SumAll([j \in 1..(first - 1) |-> rows[j].height])
                 /\ rowspan.region_full = NthRegion(rows_tmp.given, f).full
                 /\ f + Len(rowspan.heights) <= Len(layouter.rrows)
                 /\ \A i \in 1..Len(rowspan.heights) :
                       rowspan.heights[i] =
                           PiecesHeight(layouter.rrows[f + i], rowspan.y,
                                        rowspan.y + rowspan.rowspan - 1)

\* A rowspan starts below the top of its first region and has heights in
\* two regions.
C16_Witness ==
    \E k \in 1..Len(layouter.rowspans) :
        /\ layouter.rowspans[k].first_region # UsizeMax
        /\ layouter.rowspans[k].dy > 0
        /\ Len(layouter.rowspans[k].heights) > 1
        /\ layouter.rowspans[k].heights[2] > 0

\* The items of a kind in the frames of the finished regions, as pairs of
\* the region and the place among its items.
ItemsOfKind(kinds) ==
    {ri \in UNION {{<<r, i>> : i \in 1..Len(layouter.finished[r].items)} :
                      r \in 1..Len(layouter.finished)} :
        layouter.finished[ri[1]].items[ri[2]].kind \in kinds}

\* The row pieces of the finished regions are in the order of the rows:
\* strictly inside a region, and from region to region but for an auto row
\* that continues.
RowsTopToBottom ==
    \A r1, r2 \in 1..Len(layouter.rrows) :
        \A i1 \in 1..Len(layouter.rrows[r1]), i2 \in 1..Len(layouter.rrows[r2]) :
            LET y1 == layouter.rrows[r1][i1].y
                y2 == layouter.rrows[r2][i2].y
            IN  /\ (r1 = r2 /\ i1 < i2) => y1 < y2
                /\ r1 < r2 => (y1 < y2 \/ (y1 = y2 /\ grid.rows[y1 + 1] = Auto))

\* The rowspans are laid out when every row is placed and the last region
\* is finished, and the fills and the lines are rendered after that.
RowspansAfterRows ==
    /\ ItemsOfKind({"rowspan"}) # {} => pc \in {"render", "laid_out"}
    /\ ItemsOfKind({"fill", "vline", "hline"}) # {} => pc = "laid_out"
    /\ pc \in {"layout_rowspans", "render", "laid_out"} =>
          /\ rows_tmp.y = Len(grid.rows)
          /\ layouter.lrows = << >>
    /\ pc \in {"render", "laid_out"} =>
          \A k \in 1..Len(layouter.rowspans) :
              \A i \in 1..Len(layouter.rowspans[k].heights) :
                  \E ri \in ItemsOfKind({"rowspan"}) :
                      /\ ri[1] = layouter.rowspans[k].first_region + i
                      /\ layouter.finished[ri[1]].items[ri[2]].x = layouter.rowspans[k].x
                      /\ layouter.finished[ri[1]].items[ri[2]].y = layouter.rowspans[k].y

\* C17: the rows are placed from the top to the bottom.  The row pieces of
\* a finished region have strictly increasing rows, and from a region to a
\* later one the rows do not decrease (a row is repeated only if it is an
\* auto row); finished and rrows are of the same length; the rowspans are
\* laid out after the last region is finished, after which no region is
\* finished any more, and before the fills and the lines are rendered.
C17_TopToBottom ==
    /\ [](RowsTopToBottom /\ Len(layouter.finished) = Len(layouter.rrows)
            /\ RowspansAfterRows)
    /\ [][(pc = "layout_rowspans" \/ pc = "render") =>
             /\ Len(layouter'.finished) = Len(layouter.finished)
             /\ layouter'.rrows = layouter.rrows]_vars

\* Everything is rendered; an auto row continues from a region to the
\* next, and a rowspan was laid out into a frame that also has a fill.
C17_Witness ==
    /\ pc = "laid_out"
    /\ \E r \in 1..(Len(layouter.rrows) - 1) :
          /\ Len(layouter.rrows[r]) > 1
          /\ Len(layouter.rrows[r + 1]) > 1
          /\ layouter.rrows[r][Len(layouter.rrows[r])].y = layouter.rrows[r + 1][1].y
    /\ \E ri \in ItemsOfKind({"rowspan"}), rj \in ItemsOfKind({"fill"}) : ri[1] = rj[1]

\* The layer of an item of a frame: the fills, the lines, the content.
Layer(item) ==
    IF item.kind = "fill" THEN 0
    ELSE IF item.kind \in {"vline", "hline"} THEN 1
    ELSE 2

\* C18: in every rendered frame the fills come first, then the segments
\* of the lines, then the content of the cells; the segments are in the
\* order of (thickness, priority), not decreasing; among the segments of
\* one thickness and priority the vertical ones come before the horizontal
\* ones, and those of one direction are in the order they were collected
\* in.
C18_RenderOrder ==
    pc = "laid_out" =>
        \A r \in 1..Len(layouter.finished) :
            LET items == layouter.finished[r].items
            IN  \A i, j \in 1..Len(items) :
                    i < j =>
                       /\ Layer(items[i]) <= Layer(items[j])
                       /\ (Layer(items[i]) = 1 /\ Layer(items[j]) = 1) =>
                             /\ KeyLeq(items[i], items[j])
                             /\ KeyLeq(items[j], items[i]) =>
                                   \/ items[i].kind = "vline" /\ items[j].kind = "hline"
                                   \/ items[i].kind = items[j].kind
                                        /\ items[i].x < items[j].x

\* A rendered frame has a fill, content, and a vertical and a horizontal
\* segment of the same thickness and priority.
C18_Witness ==
    /\ pc = "laid_out"
    /\ \E r \in 1..Len(layouter.finished) :
          LET items == layouter.finished[r].items
          IN  \E f, v, h, c \in 1..Len(items) :
                 /\ items[f].kind = "fill"
                 /\ items[v].kind = "vline"
                 /\ items[h].kind = "hline"
                 /\ items[c].kind = "row"
                 /\ items[v].thickness = items[h].thickness
                 /\ items[v].priority = items[h].priority

(***************************************************************************)
(* Properties of the placement resolver.                                   *)
(***************************************************************************)
\* The number of content tracks of an axis of a grid: with gutters the
\* tracks alternate content, gutter, ..., content.
ContentTracks(has_gutter, physical) ==
    IF has_gutter THEN (Len(physical) + 1) \div 2 ELSE Len(physical)

\* The slots of the colspan x rowspan rectangle whose origin is index.
SpanRect(index, c, colspan, rowspan) ==
    {index + c * dy + dx : dx \in 0..(colspan - 1), dy \in 0..(rowspan - 1)}

\* The step from this state consumes a cell.
CellStep == pc = "resolving" /\ nitems' = nitems + 1 /\ last'.kind = "cell"

\* C1: after resolve succeeds the number of entries is C x R, R the number
\* of content rows of the grid, and every content position (x, y) with x < C
\* and y < R holds a Cell or a Merged entry.
C1_EntriesCoverGrid ==
    pc = "resolved" =>
        LET C == ContentTracks(grid.has_gutter, grid.cols)
            R == ContentTracks(grid.has_gutter, grid.rows)
            f == IF grid.has_gutter THEN 2 ELSE 1
        IN  /\ Len(grid.entries) = C * R
            /\ \A x \in 0..(C - 1), y \in 0..(R - 1) :
                  entry(grid, f * x, f * y).kind \in {"Cell", "Merged"}

\* C2: in a resolved grid the parent of every Merged entry is a Cell whose
\* rectangle contains the merged position, and wherever parent_cell_position
\* returns a position, cell() is Some at it.
C2_MergedParentIsCell ==
    pc = "resolved" =>
        LET C == Columns(tracks)
        IN  /\ \A i \in 0..(Len(grid.entries) - 1) :
                  grid.entries[i + 1].kind = "Merged" =>
                      LET p == grid.entries[i + 1].parent
                          pe == Get(grid.entries, p)
                      IN  /\ pe.kind = "Cell"
                          /\ p % C <= i % C
                          /\ i % C < (p % C) + pe.colspan
                          /\ p \div C <= i \div C
                          /\ i \div C < (p \div C) + pe.rowspan
            /\ \A x \in 0..(Len(grid.cols) - 1), y \in 0..(Len(grid.rows) - 1) :
                  LET pp == parent_cell_position(grid, x, y)
                  IN  pp.some => cell(grid, pp.x, pp.y).kind = "Cell"

\* A grid with gutters in which a cell spans two columns and two rows.
C2_Witness ==
    /\ pc = "resolved"
    /\ grid.has_gutter
    /\ \E i \in 1..Len(grid.entries) :
          /\ grid.entries[i].kind = "Merged"
          /\ (i - 1) % Columns(tracks) # grid.entries[i].parent % Columns(tracks)
          /\ (i - 1) \div Columns(tracks) # grid.entries[i].parent \div Columns(tracks)

\* Every non-origin slot of a cell's rectangle is Merged with the cell as
\* its parent, and the rectangles of distinct cells are disjoint.
SpansDisjoint(cells, c) ==
    LET origins == {i \in 0..(Len(cells) - 1) : cells[i + 1].kind = "Cell"}
        rect(i) == SpanRect(i, c, cells[i + 1].colspan, cells[i + 1].rowspan)
    IN  /\ \A i \in origins : \A j \in rect(i) \ {i} : Get(cells, j) = MergedEntry(i)
        /\ \A i, j \in origins : i # j => rect(i) \cap rect(j) = {}

\* C3: a cell whose position resolved, whose colspan fits and whose origin
\* is free makes resolve fail with the 'would span a previously placed
\* cell' error exactly when a non-origin slot of its rectangle is taken;
\* so the rectangles of the placed cells are disjoint and their non-origin
\* slots are Merged pointing to the origin.
C3_SpanConflict ==
    /\ [](pc = "resolving" => SpansDisjoint(resolved_cells, Columns(tracks)))
    /\ [](pc = "resolved" => SpansDisjoint(grid.entries, Columns(tracks)))
    /\ [][(/\ CellStep
           /\ last'.index >= 0
           /\ last'.celled_ok
           /\ last'.colspan <= Columns(tracks) - (last'.index % Columns(tracks))
           /\ ~Occupied(resolved_cells, last'.index))
          => IF \E i \in SpanRect(last'.index, Columns(tracks), last'.colspan,
                                  last'.rowspan) \ {last'.index} :
                    Occupied(resolved_cells, i)
             THEN pc' = "failed" /\ err' = "span_previous"
             ELSE pc' = "resolving" /\ err' = "none"]_vars

\* resolve has failed on a cell that would span a placed cell.
C3_Witness == pc = "failed" /\ err = "span_previous" /\ last.kind = "cell"

\* C4: a cell with x and y auto gets the smallest index i >= auto_index
\* whose slot is not taken, and auto_index becomes i + 1; a cell with an
\* explicit coordinate leaves auto_index as it is.
C4_AutoPosition ==
    [][CellStep =>
        IF last'.x = SmartAuto /\ last'.y = SmartAuto
        THEN /\ last'.index >= auto_index
             /\ ~Occupied(resolved_cells, last'.index)
             /\ \A j \in auto_index..(last'.index - 1) : Occupied(resolved_cells, j)
             /\ pc' = "resolving" =>
                   /\ auto_index' = last'.index + 1
                   /\ resolved_cells'[last'.index + 1].kind = "Cell"
        ELSE pc' = "resolving" => auto_index' = auto_index]_vars

\* An automatically positioned cell was placed past a taken slot.
C4_Witness ==
    /\ pc = "resolving"
    /\ last.kind = "cell"
    /\ last.x = SmartAuto
    /\ last.y = SmartAuto
    /\ last.index > last.auto_before

\* C5: a cell with explicit (x, y): with x >= C resolve fails; with x < C
\* the cell resolves to index y * C + x; if that slot is taken resolve fails
\* with a placement conflict and returns no grid; a placement leaves every
\* taken slot as it was.
C5_ExplicitPosition ==
    /\ [](pc = "failed" => grid = NoGrid)
    /\ [][(CellStep /\ last'.x # SmartAuto /\ last'.y # SmartAuto) =>
          LET c == Columns(tracks)
              i == last'.y * c + last'.x
              fits == last'.colspan <= c - last'.x
          IN  IF last'.x >= c
              THEN pc' = "failed" /\ err' = "invalid_column"
              ELSE /\ last'.index = i
                   /\ Occupied(resolved_cells, i) =>
                         /\ pc' = "failed"
                         /\ last'.celled_ok =>
                               err' \in {"second_cell", "colspan_exceeds"}
                         /\ (last'.celled_ok /\ fits) => err' = "second_cell"
                   /\ pc' = "resolving" =>
                         /\ resolved_cells'[i + 1].kind = "Cell"
                         /\ resolved_cells'[i + 1].colspan = last'.colspan
                         /\ resolved_cells'[i + 1].rowspan = last'.rowspan
                         /\ \A j \in 0..(Len(resolved_cells) - 1) :
                               Occupied(resolved_cells, j) =>
                                   resolved_cells'[j + 1] = resolved_cells[j + 1]]_vars

\* A second cell asked for a position a cell holds.
C5_Witness ==
    /\ pc = "failed"
    /\ err = "second_cell"
    /\ last.x # SmartAuto
    /\ last.y # SmartAuto

\* C6: a cell with explicit column x and auto row: with x >= C resolve
\* fails; otherwise the cell resolves to (x, y), y the smallest row whose
\* slot in column x is not taken.
C6_ColumnOnly ==
    [][(CellStep /\ last'.x # SmartAuto /\ last'.y = SmartAuto) =>
        LET c == Columns(tracks)
        IN  IF last'.x >= c
            THEN pc' = "failed" /\ err' = "invalid_column"
            ELSE /\ last'.index >= 0
                 /\ last'.index % c = last'.x
                 /\ ~Occupied(resolved_cells, last'.index)
                 /\ \A r \in 0..((last'.index \div c) - 1) :
                       Occupied(resolved_cells, r * c + last'.x)
                 /\ pc' = "resolving" =>
                       resolved_cells'[last'.index + 1].kind = "Cell"]_vars

\* A cell with only its column given was placed below a taken slot.
C6_Witness ==
    /\ pc = "resolving"
    /\ last.kind = "cell"
    /\ last.x # SmartAuto
    /\ last.y = SmartAuto
    /\ last.index \div Columns(tracks) >= 1

\* C7: a cell with auto column and explicit row y resolves to the smallest
\* column of [0, C) whose slot in row y is not taken; if the whole row is
\* taken resolve fails with the 'row was full' error.
C7_RowOnly ==
    [][(CellStep /\ last'.x = SmartAuto /\ last'.y # SmartAuto) =>
        LET c == Columns(tracks)
            free == {x \in 0..(c - 1) : ~Occupied(resolved_cells, last'.y * c + x)}
        IN  IF free = {}
            THEN pc' = "failed" /\ err' = "row_full"
            ELSE /\ \E x \in free :
                       /\ \A x2 \in free : x <= x2
                       /\ last'.index = last'.y * c + x
                 /\ pc' = "resolving" =>
                       resolved_cells'[last'.index + 1].kind = "Cell"]_vars

\* A cell asked for a row that was full.
C7_Witness == pc = "failed" /\ err = "row_full" /\ last.kind = "cell"

\* No cell of the vector reaches past the last column.
ColspansFit(cells, c) ==
    \A i \in 0..(Len(cells) - 1) :
        cells[i + 1].kind = "Cell" => (i % c) + cells[i + 1].colspan <= c

\* C8: a cell whose colspan exceeds C - x at its resolved column x makes
\* resolve fail; in every resolved grid each cell has x + colspan <= C.
C8_ColspanWithinColumns ==
    /\ (/\ last.kind = "cell"
        /\ last.index >= 0
        /\ last.colspan > Columns(tracks) - (last.index % Columns(tracks)))
       => (pc = "failed" /\ err = "colspan_exceeds")
    /\ pc = "resolving" => ColspansFit(resolved_cells, Columns(tracks))
    /\ pc = "resolved" => ColspansFit(grid.entries, Columns(tracks))

\* resolve has failed on a cell whose colspan exceeds the columns left.
C8_Witness == pc = "failed" /\ err = "colspan_exceeds" /\ last.kind = "cell"

(***************************************************************************)
(* Properties of the column sizing.                                        *)
(***************************************************************************)
\* The sum of the resolved widths of the columns of one kind of sizing.
KindSum(kind) ==
    SumAll([i \in 1..Len(rcols) |-> IF grid.cols[i].kind = kind THEN rcols[i] ELSE 0])

\* C9: after measure_columns, width is the sum of the resolved column
\* widths; and if the region width is finite and the relative columns sum
\* to at most the region width, then all the resolved columns together are
\* at most the region width.
C9_ColumnSum ==
    pc = "columns_done" =>
        /\ width = AbsAdd(AbsAdd(KindSum("Rel"), KindSum("Auto")), KindSum("Fr"))
        /\ (regions.size_x # Inf /\ KindSum("Rel") <= regions.size_x) =>
              AbsAdd(AbsAdd(KindSum("Rel"), KindSum("Auto")), KindSum("Fr"))
                  <= regions.size_x

\* The auto columns of a finite region were too wide and have been shrunk.
C9_Witness ==
    /\ pc = "columns_done"
    /\ regions.size_x # Inf
    /\ cols_tmp.remaining < 0
    /\ \E i \in 1..Len(rcols) : grid.cols[i] = Auto /\ rcols[i] > 0
    /\ KindSum("Rel") > 0

C11_FairShrink ==
    [][pc = "shrink_auto_columns" =>
         LET autos == {i \in 1..Len(rcols) : grid.cols[i] = Auto}
         IN  /\ \E f \in autos :
                   \A i \in autos : rcols'[i] = Min(rcols[i], rcols'[f])
             /\ SumAll([i \in 1..Len(rcols) |->
                           IF i \in autos THEN rcols'[i] ELSE 0])
                    = cols_tmp.available
             /\ \A i \in 1..Len(rcols) : i \notin autos => rcols'[i] = rcols[i]]_vars

\* Two auto columns were too wide together: the narrow one kept its
\* measured width and the wide one was clamped to a larger fair share.
C11_Witness ==
    /\ pc = "sum_columns"
    /\ cols_tmp.remaining < 0
    /\ \E i, j \in 1..Len(rcols) :
          /\ grid.cols[i] = Auto /\ grid.cols[j] = Auto
          /\ rcols[i] = 4 * Scale
          /\ rcols[j] > 4 * Scale /\ rcols[j] < 9 * Scale

(***************************************************************************)
(* Properties of the lines of resolve.                                     *)
(***************************************************************************)
\* The step in which resolve, out of items, checks the pending lines and
\* builds the grid.
FinishStep == pc = "resolving" /\ pc' \in {"resolved", "failed"} /\ nitems' = nitems

\* The number of content rows of the grid resolve builds from its cells.
ResultRows == RowCount(tracks, Materialize(resolved_cells))

\* A line beyond the last border of its axis of `amount` tracks, or after
\* that border.
OutOfGrid(line, amount) ==
    line.index > amount \/ (line.index = amount /\ line.position = "After")

\* At its item, a line is rejected exactly when its end is given and is
\* smaller than its start.
RejectedAtItem ==
    (pc = "resolving" /\ nitems' = nitems + 1 /\ last'.kind \in {"hline", "vline"}) =>
        /\ err' \in {"none", "line_ends_before_start"}
        /\ (err' # "none") <=> (last'.end # 0 /\ last'.end < last'.start)

\* At the end, resolve fails exactly when a pending line is out of a grid
\* of `rows` rows and C columns.
RejectedAtEnd(rows) ==
    FinishStep =>
        ((pc' = "failed") <=>
            \/ \E k \in 1..Len(pending_hlines) : OutOfGrid(pending_hlines[k], rows)
            \/ \E k \in 1..Len(pending_vlines) :
                   OutOfGrid(pending_vlines[k], Columns(tracks)))

\* C19: resolve rejects a line exactly when: it is an hline with y > R (R
\* the number of content rows of the resulting grid), a vline with x > C,
\* its end is smaller than its start, or its position is After at the
\* border index (y = R, x = C); every other line is accepted.
C19_LineRejection ==
    /\ [][RejectedAtItem]_vars
    /\ [][RejectedAtEnd(ResultRows)]_vars

\* `line` is stored in the group g of `groups`.
Stored(groups, g, line) ==
    /\ g < Len(groups)
    /\ \E j \in 1..Len(groups[g + 1]) : groups[g + 1][j] = line

\* The accepted lines of one axis of `amount` content tracks are stored
\* normalised: After at i becomes Before at i + 1 without gutter or at the
\* last track, and stays in group i otherwise; so After is stored only with
\* gutter, away from the last track, and there are at most amount + 1 groups.
Normalised(pending, groups, amount, has_gutter) ==
    /\ \A k \in 1..Len(pending) :
          LET l == pending[k]
          IN  l.position = "After" =>
                  IF ~has_gutter \/ l.index + 1 = amount
                  THEN Stored(groups, l.index + 1,
                              [l EXCEPT !.index = l.index + 1, !.position = "Before"])
                  ELSE Stored(groups, l.index, l)
    /\ \A g \in 1..Len(groups) : \A j \in 1..Len(groups[g]) :
          groups[g][j].position = "After" =>
              has_gutter /\ groups[g][j].index + 1 < amount
    /\ Len(groups) <= amount + 1

\* C20: every accepted line declared After at index i is stored as a Before
\* line in group i + 1 when the grid has no gutter or i is the last content
\* track of its axis, and unchanged in group i otherwise; a stored line is
\* After only with gutter at a track that is not the last; there are at most
\* C + 1 vline groups and R + 1 hline groups.
C20_LineNormalization ==
    [][(FinishStep /\ pc' = "resolved") =>
         /\ Normalised(pending_hlines, grid'.hlines,
                       ContentTracks(grid'.has_gutter, grid'.rows), grid'.has_gutter)
         /\ Normalised(pending_vlines, grid'.vlines,
                       ContentTracks(grid'.has_gutter, grid'.cols), grid'.has_gutter)]_vars

(***************************************************************************)
(* Properties of the lines at the automatic index.                         *)
(***************************************************************************)
\* The step in which resolve consumes an item and goes on.
ItemStep == pc = "resolving" /\ nitems' = nitems + 1 /\ pc' = "resolving"

\* auto_index is 0 until a cell with both coordinates automatic is placed,
\* and then the index of the latest such cell plus one: such a cell sets
\* it, and no other item changes it.
CounterFollowsAutoCells ==
    ItemStep =>
        IF last'.kind = "cell" /\ last'.x = SmartAuto /\ last'.y = SmartAuto
        THEN auto_index' = last'.index + 1
        ELSE auto_index' = auto_index

\* A line at the automatic index is pushed with the index below the row, or
\* after the column, of the cell at auto_index - 1, or with 0.
AutoLineBelowCounter ==
    ItemStep =>
        /\ (last'.kind = "hline" /\ last'.index = SmartAuto) =>
              /\ Len(pending_hlines') = Len(pending_hlines) + 1
              /\ pending_hlines'[Len(pending_hlines')].index =
                    IF auto_index = 0 THEN 0
                    ELSE ((auto_index - 1) \div Columns(tracks)) + 1
        /\ (last'.kind = "vline" /\ last'.index = SmartAuto) =>
              /\ Len(pending_vlines') = Len(pending_vlines) + 1
              /\ pending_vlines'[Len(pending_vlines')].index =
                    IF auto_index = 0 THEN 0
                    ELSE ((auto_index - 1) % Columns(tracks)) + 1

\* C21: an hline with y = auto is placed at (auto_index - 1) / C + 1, below
\* the row of the latest cell with both coordinates automatic, whatever
\* cells with given coordinates came in between, and at 0 before any such
\* cell; a vline with x = auto is placed at (auto_index - 1) mod C + 1, or 0.
C21_AutoLineIndex ==
    /\ [][CounterFollowsAutoCells]_vars
    /\ [][AutoLineBelowCounter]_vars

\* An hline at the automatic index pushed below row 0, the row of the only
\* automatically positioned cell, after a cell was given a place in a later
\* row.
C21_Witness ==
    /\ pc = "resolving"
    /\ last.kind = "hline" /\ last.index = SmartAuto
    /\ Columns(tracks) = 2
    /\ auto_index = 1
    /\ Len(pending_hlines) > 0
    /\ pending_hlines[Len(pending_hlines)].index = 1
    /\ \E i \in 3..Len(resolved_cells) : resolved_cells[i].kind = "Cell"

(***************************************************************************)
(* Properties of the order of the lines.                                   *)
(***************************************************************************)
\* The lines of `lines` are in the order of their items: the span of a
\* line is the position of its item among the items given to resolve.
InItemOrder(lines) ==
    \A j, k \in 1..Len(lines) : j < k => lines[j].span < lines[k].span

\* C22: in every hline group and every vline group of a resolved grid the
\* lines are in the order their items had in the input, whatever cells came
\* between them and whether or not a line came to the group by being turned
\* from After into Before; the pending lines are in that order as well.
C22_LineOrder ==
    /\ pc = "resolving" => InItemOrder(pending_hlines) /\ InItemOrder(pending_vlines)
    /\ pc = "resolved" =>
          /\ \A g \in 1..Len(grid.hlines) : InItemOrder(grid.hlines[g])
          /\ \A g \in 1..Len(grid.vlines) : InItemOrder(grid.vlines[g])

\* A resolved grid without gutter whose hline group 1 holds the first and
\* the third item, with a cell as the second item between them.
C22_Witness ==
    /\ pc = "resolved"
    /\ ~grid.has_gutter
    /\ nitems = 3
    /\ Len(grid.entries) > 0
    /\ Len(grid.hlines) > 1
    /\ Len(grid.hlines[2]) = 2
    /\ grid.hlines[2][1].span = 0
    /\ grid.hlines[2][2].span = 2

(***************************************************************************)
(* Properties of the widths of the auto columns.                           *)
(***************************************************************************)
\* The cells of the grid, as positions in its entries, and for the cell n:
\* the columns it spans (gutters included), the last auto column among
\* them (-1 if none), and whether they hold every fractional column, of
\* which there is at least one.
GridCells == {n \in 1..Len(grid.entries) : grid.entries[n].kind = "Cell"}
ColumnsOf(n) ==
    LET c == IF grid.has_gutter THEN (Len(grid.cols) + 1) \div 2 ELSE Len(grid.cols)
        first == (IF grid.has_gutter THEN 2 ELSE 1) * ((n - 1) % c)
        span == IF grid.has_gutter THEN 2 * grid.entries[n].colspan - 1
                ELSE grid.entries[n].colspan
    IN  first..(first + span - 1)
LastAutoColumnOf(n) ==
    LET autos == {x \in ColumnsOf(n) : grid.cols[x + 1].kind = "Auto"}
    IN  IF autos = {} THEN -1 ELSE CHOOSE x \in autos : \A x2 \in autos : x2 <= x
HoldsAllFractions(n) ==
    /\ \E x \in 0..(Len(grid.cols) - 1) : grid.cols[x + 1].kind = "Fr"
    /\ \A x \in 0..(Len(grid.cols) - 1) :
          grid.cols[x + 1].kind = "Fr" => x \in ColumnsOf(n)

\* The cells that contribute to the auto column x: the cells of the column
\* with colspan 1, and the cells with a larger colspan whose last auto
\* column is x, unless the region is finite and they hold every fractional
\* column.
ContributorsOf(x) ==
    {n \in GridCells :
        /\ x \in ColumnsOf(n)
        /\ Cardinality(ColumnsOf(n)) > 1 =>
              /\ LastAutoColumnOf(n) = x
              /\ ~(regions.size_x # Inf /\ HoldsAllFractions(n))}

\* What the cell n contributes to the column x: its measured width less the
\* widths `widths` of the other columns it spans.
ContributionOf(n, x, widths) ==
    grid.entries[n].w
      - SumAll([j \in 1..Len(widths) |->
                   IF (j - 1) \in ColumnsOf(n) /\ j - 1 # x THEN widths[j] ELSE 0])

\* C23: measure_auto_columns gives every auto column the largest
\* contribution of its contributors, or 0, and leaves the other columns
\* alone: a cell with colspan > 1 contributes its measured width, less the
\* width of the other columns it spans, to the last auto column it spans
\* only, and to none when the region is finite and it spans all of the
\* fractional columns, of which there is one; an auto column spanned by such
\* a cell only stays at 0.
C23_ColspanContribution ==
    [][pc = "measure_auto_columns" =>
         \A x \in 0..(Len(grid.cols) - 1) :
             IF grid.cols[x + 1].kind = "Auto"
             THEN /\ rcols'[x + 1] >= 0
                  /\ \A n \in ContributorsOf(x) :
                        rcols'[x + 1] >= ContributionOf(n, x, rcols')
                  /\ \/ rcols'[x + 1] = 0
                     \/ \E n \in ContributorsOf(x) :
                           rcols'[x + 1] = ContributionOf(n, x, rcols')
             ELSE rcols'[x + 1] = rcols[x + 1]]_vars

\* After measure_auto_columns in a finite region: an auto column of width 0
\* whose only cell has a colspan and a measured width and spans the
\* fractional column.
C23_Witness ==
    /\ pc = "grow_fractional_columns"
    /\ regions.size_x # Inf
    /\ \E x \in 0..(Len(grid.cols) - 1), n \in GridCells :
          /\ grid.cols[x + 1].kind = "Auto"
          /\ rcols[x + 1] = 0
          /\ Cardinality(ColumnsOf(n)) > 1
          /\ LastAutoColumnOf(n) = x
          /\ HoldsAllFractions(n)
          /\ grid.entries[n].w > 0
          /\ \A n2 \in GridCells : x \in ColumnsOf(n2) => n2 = n

(***************************************************************************)
(* Properties of the fractional rows.                                      *)
(***************************************************************************)
\* Of the row pieces `rows` of a finished region: the fractional ones, the
\* sum of their fractions, and the height the other ones use.
FractionalPieces(rows) == {i \in 1..Len(rows) : grid.rows[rows[i].y + 1].kind = "Fr"}
FractionsOf(rows) ==
    SumAll([i \in 1..Len(rows) |->
               IF i \in FractionalPieces(rows) THEN grid.rows[rows[i].y + 1].v ELSE 0])
UsedBy(rows) ==
    SumAll([i \in 1..Len(rows) |->
               IF i \in FractionalPieces(rows) THEN 0 ELSE rows[i].height])

\* The height the r-th region (from 1) has when the layouter comes to it;
\* the regions differ, so the layouter comes to each with nothing in it.
InitialHeight(r) == NthRegion(rows_tmp.given, r - 1).size_y

\* C24: a finished region of finite height with a fractional row has a
\* frame of the region's initial height; its fractional rows share, in
\* proportion to their fractions, the height the other rows of the region
\* (a trailing gutter row left out) do not use, so that the heights of the
\* row pieces sum to the height of the frame.
C24_FractionalRowsFill ==
    \A r \in 1..Len(layouter.finished) :
        LET rows == layouter.rrows[r]
            frame == layouter.finished[r]
        IN  (FractionalPieces(rows) # {} /\ Len(rows_tmp.given.last) > 0) =>
                /\ frame.size_y = InitialHeight(r)
                /\ SumAll([i \in 1..Len(rows) |-> rows[i].height]) = frame.size_y
                /\ \A i \in FractionalPieces(rows) :
                      rows[i].height * FractionsOf(rows) =
                          grid.rows[rows[i].y + 1].v * (frame.size_y - UsedBy(rows))

(***************************************************************************)
(* Properties of the horizontal placement.                                 *)
(***************************************************************************)
\* Of the cell at (x, y): the columns it spans, gutters included; the widths
\* of the columns before it, of the columns it spans, and of the columns
\* after it.
PhysicalColumns(x, y) == effective_colspan_of_cell(grid, cell(grid, x, y).colspan)
WidthBefore(x) == SumRange(rcols, 1, x)
WidthSpanned(x, y) == SumRange(rcols, x + 1, x + PhysicalColumns(x, y))
WidthAfter(x, y) == SumRange(rcols, x + PhysicalColumns(x, y) + 1, Len(rcols))

\* A rectangle of the cell at (x, y) is where the direction puts it: left
\* to right after the columns before the cell; right to left after the
\* columns behind the cell, which is the mirror image of the former.
Mirrored(x, y, pos_x, w) ==
    /\ w = WidthSpanned(x, y)
    /\ ~layouter.is_rtl => pos_x = WidthBefore(x)
    /\ layouter.is_rtl =>
          /\ pos_x = WidthAfter(x, y)
          /\ pos_x = width - (WidthBefore(x) + WidthSpanned(x, y))

\* C25: in a grid laid out right to left, the fill of a cell at the column x
\* that spans k columns (gutters included) and its content in a row laid
\* out by layout_single_row have their left edge at the sum of the widths
\* of the columns x + k and later, that is, at the grid's width less the
\* left edge they have left to right and the width of the columns the cell
\* spans; their width is that of the spanned columns in either direction.
C25_RtlMirror ==
    /\ \A i \in 1..Len(layouter.lrows) :
          \A k \in 1..Len(layouter.lrows[i].cells) :
              LET placed == layouter.lrows[i].cells[k]
              IN  Mirrored(placed.x, placed.y, placed.pos_x, placed.width)
    /\ \A r \in 1..Len(layouter.finished) :
          \A k \in 1..Len(layouter.finished[r].items) :
              LET item == layouter.finished[r].items[k]
              IN  item.kind = "fill" => Mirrored(item.x, item.y, item.pos_x, item.width)

\* A grid laid out right to left is rendered with the fill of a cell of
\* two columns of some width each that has a column of some width behind it.
C25_Witness ==
    /\ pc = "laid_out"
    /\ layouter.is_rtl
    /\ \E r \in 1..Len(layouter.finished) :
          \E k \in 1..Len(layouter.finished[r].items) :
              LET item == layouter.finished[r].items[k]
              IN  /\ item.kind = "fill"
                  /\ cell(grid, item.x, item.y).colspan = 2
                  /\ WidthAfter(item.x, item.y) > 0
                  /\ rcols[item.x + 1] > 0
                  /\ WidthSpanned(item.x, item.y) > rcols[item.x + 1]
                  /\ item.pos_x = WidthAfter(item.x, item.y)

(***************************************************************************)
(* Properties of the tracks of the grid.                                   *)
(***************************************************************************)
\* The sizing declared for the n-th (from 0) track of a list: its own, or
\* past the list the last of the list, or `none` when the list is empty.
Declared(list, n, none) ==
    IF n < Len(list) THEN list[n + 1]
    ELSE IF list # << >> THEN list[Len(list)]
    ELSE none

\* The physical tracks of an axis with `count` content tracks.
Interleaved(physical, content, gutters, count, with_gutter) ==
    /\ Len(physical) = IF ~with_gutter THEN count
                       ELSE IF count >= 1 THEN 2 * count - 1 ELSE 0
    /\ \A i \in 0..(Len(physical) - 1) :
          physical[i + 1] =
              IF ~with_gutter THEN Declared(content, i, Auto)
              ELSE IF i % 2 = 0 THEN Declared(content, i \div 2, Auto)
              ELSE Declared(gutters, i \div 2, Rel(0))

\* The rows needed to hold n entries in c columns.
RowsNeeded(n, c) == CHOOSE r \in 0..n : r * c >= n /\ (r = 0 \/ (r - 1) * c < n)

\* C27: the tracks of the grid resolve returns interleave gutters between
\* content tracks only: with a gutter on either axis there are 2C - 1
\* columns and 2R - 1 rows, content at the even and gutter at the odd
\* indices, else C and R; C is the number of declared columns, at least 1,
\* and R the larger of the declared rows and the rows the entries need; a
\* content track past the declared ones has the last declared sizing, or
\* Auto, and a gutter track past the declared ones the last declared
\* gutter, or a zero length.
C27_TracksInterleaveGutters ==
    pc = "resolved" =>
        LET C == IF Len(tracks.x) > 1 THEN Len(tracks.x) ELSE 1
            needed == RowsNeeded(Len(grid.entries), C)
            R == IF Len(tracks.y) > needed THEN Len(tracks.y) ELSE needed
            with_gutter == gutter.x # << >> \/ gutter.y # << >>
        IN  /\ grid.has_gutter = with_gutter
            /\ Interleaved(grid.cols, tracks.x, gutter.x, C, with_gutter)
            /\ Interleaved(grid.rows, tracks.y, gutter.y, R, with_gutter)

\* A grid with a row gutter and no column gutter whose entries need more
\* rows than the two declared: the third row and the second row gutter are
\* past the declared ones, and the column gutter is of zero length.
C27_Witness ==
    /\ pc = "resolved"
    /\ gutter.x = << >>
    /\ gutter.y # << >>
    /\ Len(tracks.y) = 2
    /\ Len(tracks.x) = 2
    /\ Len(grid.rows) = 5
    /\ Len(grid.cols) = 3
    /\ grid.cols[2] = Rel(0)
    /\ grid.rows[5] = tracks.y[2]
    /\ grid.rows[5] # Auto
    /\ grid.rows[4] = gutter.y[1]

(***************************************************************************)
(* Properties of the celled values.                                        *)
(***************************************************************************)
\* C28: Celled::resolve(x, y) returns v for Value(v), the element at
\* x mod len of a non-empty array, whatever y is, and T::default() for an
\* empty array, without failing; it fails for a closure only.
C28_CelledResolve ==
    (last.kind = "cell" /\ last.fill.called) =>
        LET celled == tracks.fill
            x == last.index % Columns(tracks)
        IN  /\ celled.kind = "Value" => last.fill = [called |-> TRUE, ok |-> TRUE,
                                                    v |-> celled.v]
            /\ (celled.kind = "Array" /\ celled.array # << >>) =>
                  /\ last.fill.ok
                  /\ \E n \in 0..x :
                        /\ n < Len(celled.array)
                        /\ (x - n) % Len(celled.array) = 0
                        /\ last.fill.v = celled.array[n + 1]
            /\ (celled.kind = "Array" /\ celled.array = << >>) =>
                  last.fill = [called |-> TRUE, ok |-> TRUE, v |-> "default"]
            /\ ~last.fill.ok => celled.kind = "Func"

\* The fill of a cell in the second column and the second row of a grid
\* whose fill is an array of one value has resolved to that value.
C28_Witness ==
    /\ last.kind = "cell"
    /\ last.fill.called
    /\ tracks.fill.kind = "Array"
    /\ Len(tracks.fill.array) = 1
    /\ Columns(tracks) = 2
    /\ last.index = 3
    /\ last.fill.v = tracks.fill.array[1]

(***************************************************************************)
(* Properties of a row that fits no region.                                *)
(***************************************************************************)
\* layout is about to lay out a relative row that does not fit the region,
\* in the last region.
RowFitsNoRegion ==
    /\ pc = "row_layout"
    /\ grid.rows[rows_tmp.y + 1].kind = "Rel"
    /\ in_last(layouter.regions)
    /\ ~abs_fits(layouter.regions.size_y, grid.rows[rows_tmp.y + 1].v)

MeasuredFrom(st, can_skip, unbreakable, sim) ==
    measure_auto_row(grid, st,
                     MeasureArgs(rows_tmp.y, can_skip, unbreakable,
                                 layouter.unbreakable_rows_left, NoRowGroup, sim))

\* A cell with a body, in or across the row y, that starts in a column.
HasBodyIn(y) ==
    \E x \in 0..(Len(grid.cols) - 1) :
        LET pp == parent_cell_position(grid, x, y)
        IN  pp.some /\ pp.x = x /\ cell(grid, pp.x, pp.y).lines > 0

\* What C30 says of a step that lays out an auto row.
SkipsAtMostOnce ==
    (pc = "row_layout" /\ grid.rows[rows_tmp.y + 1] = Auto) =>
        /\ \A can_skip, unbreakable, sim \in BOOLEAN :
              /\ ~MeasuredFrom(layouter, can_skip, unbreakable, sim).some =>
                    /\ can_skip
                    /\ ~unbreakable
                    /\ HasBodyIn(rows_tmp.y)
              /\ ~can_skip =>
                    MeasuredFrom(finish_region(grid, layouter), can_skip, unbreakable,
                                 sim).some
        /\ rows_tmp'.skipped => layouter.unbreakable_rows_left = 0
        /\ Len(layouter'.finished) =
              Len(layouter.finished) + (IF rows_tmp'.skipped THEN 1 ELSE 0)
                  + (IF Len(rows_tmp'.resolved) > 1 THEN Len(rows_tmp'.resolved) - 1
                     ELSE 0)

\* C30: measure_auto_row returns None only when can_skip is set, the row is
\* not unbreakable and a cell has nothing in the first region it is
\* measured in but something in a later one; without can_skip it returns
\* Some, also after the region was finished, so that layout_auto_row
\* finishes one region at most to skip it, besides the regions the row's
\* frames fill, and the second measurement is there to unwrap.
C30_SkipOnce == [][SkipsAtMostOnce]_vars

\* An auto row has been laid out after the region was skipped for it.
C30_Witness ==
    /\ pc = "row_begin"
    /\ rows_tmp.row >= 0
    /\ rows_tmp.skipped
    /\ Len(rows_tmp.resolved) >= 1
    /\ Len(layouter.finished) >= 1

====
